---- MODULE Spec2Model ----
(***************************************************************************)
(* Table extraction and normalization pipeline of the personal finance     *)
(* tracker: src/extract_transactions.py (extraction strategies, column     *)
(* normalizer, numeric parser, row cleaner, union-schema combiner, final   *)
(* sanitizer, grouping) and the structured-API path of                     *)
(* src/services/parser.py (line items, preprocessing, run_parsing), with   *)
(* the categorization step that src/app.py and src/st_app.py run after it. *)
(*                                                                         *)
(* Text is modelled by TLA+ strings, processed character by character.     *)
(* TLA+ strings are ASCII, so four non-ASCII characters of the source are  *)
(* written with stand-ins that occur nowhere else in the model's inputs:   *)
(*   NBSP (U+00A0) "^", unicode minus (U+2212) "~", em dash "=", en dash   *)
(*   "|".                                                                  *)
(* Floating point values are exact decimals m / 10^e, plus inf and NaN.    *)
(***************************************************************************)
EXTENDS Integers, Sequences, FiniteSets, TLC

VARIABLES
    cell, ser, num_pc,                \* _series_to_numeric_aligned on one cell
    labels, cols, prev_cols, norm_n,  \* _normalize_cols on one header
    frame, hist, clean_pc,            \* clean_transaction_table on one table
    strategies, ex_pc, raw_candidates, \* extract_all_tables on one PDF
    listing, pdf_files, pdf_i,        \* process_folder: the directory, its PDFs,
    raw_tables, tbl_i, sources,       \* the candidates of the current PDF,
    pf_pc, seen, all_cleaned,         \* the loop over the tables,
    all_columns, combined, ledger,    \* the combined frame, the sanitized one,
    files, grouped, skipped,          \* the files written, the value returned,
                                      \* the tables passed over and why
    entities, current_cardholder,     \* _parse_table_items: the items gone through,
    transactions, doc_n,              \* the label, the records, the document's
    prev_cardholder,                  \* number, the label the one before ended on
    file_names, file_i, rp_pc,        \* run_parsing: the listing, the loop over it,
    all_cleaned_dfs, data_csv,        \* the cleaned frames, the file data.csv,
    result, csv_saved,                \* the last answer of the service, to_csv done
    statements, current_year, runs    \* run_parsing as a whole, over one set of
                                      \* statement files listed in several orders

numVars == <<cell, ser, num_pc>>
colVars == <<labels, cols, prev_cols, norm_n>>
cleanVars == <<frame, hist, clean_pc>>
extractVars == <<strategies, ex_pc, raw_candidates>>
folderVars == <<listing, pdf_files, pdf_i, raw_tables, tbl_i, sources, pf_pc, seen,
                all_cleaned, all_columns, combined, ledger, files, grouped, skipped>>
itemVars == <<entities, current_cardholder, transactions, doc_n, prev_cardholder>>
parseVars == <<file_names, file_i, rp_pc, all_cleaned_dfs, data_csv, result, csv_saved>>
orderVars == <<statements, current_year, runs>>
vars == <<cell, ser, num_pc, labels, cols, prev_cols, norm_n, frame, hist, clean_pc,
          strategies, ex_pc, raw_candidates,
          listing, pdf_files, pdf_i, raw_tables, tbl_i, sources, pf_pc, seen,
          all_cleaned, all_columns, combined, ledger, files, grouped, skipped,
          entities, current_cardholder, transactions, doc_n, prev_cardholder,
          file_names, file_i, rp_pc, all_cleaned_dfs, data_csv, result, csv_saved,
          statements, current_year, runs>>

----------------------------------------------------------------------------
(* Characters and strings                                                  *)

NBSP == "^"
UMINUS == "~"
EMDASH == "="
ENDASH == "|"

UpperChars == "ABCDEFGHIJKLMNOPQRSTUVWXYZ"
LowerChars == "abcdefghijklmnopqrstuvwxyz"
DigitChars == "0123456789"

Ch(s, i) == SubSeq(s, i, i)

InStr(c, alphabet) == \E i \in 1..Len(alphabet) : Ch(alphabet, i) = c

IndexIn(c, alphabet) == CHOOSE i \in 1..Len(alphabet) : Ch(alphabet, i) = c

\* \s of Python's re on str, and the characters str.strip() removes
IsSpaceCh(c) == c \in {" ", "\t", "\n", NBSP}

IsDigitCh(c) == InStr(c, DigitChars)

IsLetterCh(c) == InStr(c, UpperChars) \/ InStr(c, LowerChars)

LowerCh(c) == IF InStr(c, UpperChars) THEN Ch(LowerChars, IndexIn(c, UpperChars)) ELSE c

RECURSIVE Lower(_)
Lower(s) == IF s = "" THEN "" ELSE LowerCh(Ch(s, 1)) \o Lower(Tail(s))

RECURSIVE LStrip(_)
LStrip(s) == IF s # "" /\ IsSpaceCh(Ch(s, 1)) THEN LStrip(Tail(s)) ELSE s

RECURSIVE RStrip(_)
RStrip(s) ==
    IF s # "" /\ IsSpaceCh(Ch(s, Len(s))) THEN RStrip(SubSeq(s, 1, Len(s) - 1)) ELSE s

\* str.strip()
Strip(s) == RStrip(LStrip(s))

\* re.sub(r"\s+", " ", s): every run of whitespace becomes one space
RECURSIVE CollapseWs(_)
CollapseWs(s) ==
    IF s = "" THEN ""
    ELSE IF IsSpaceCh(Ch(s, 1))
         THEN " " \o CollapseWs(LStrip(s))
         ELSE Ch(s, 1) \o CollapseWs(Tail(s))

\* str.replace(old, new) for a one-character old
RECURSIVE ReplaceCh(_, _, _)
ReplaceCh(s, old, new) ==
    IF s = "" THEN ""
    ELSE (IF Ch(s, 1) = old THEN new ELSE Ch(s, 1)) \o ReplaceCh(Tail(s), old, new)

\* k in c
Contains(c, k) ==
    \E i \in 1..(Len(c) - Len(k) + 1) : SubSeq(c, i, i + Len(k) - 1) = k

AnyIn(c, ks) == \E k \in ks : Contains(c, k)

HasDigit(s) == \E i \in 1..Len(s) : IsDigitCh(Ch(s, i))

HasLetter(s) == \E i \in 1..Len(s) : IsLetterCh(Ch(s, i))

----------------------------------------------------------------------------
(* Column normalizer                                                       *)

\* the header clean-up of _normalize_cols
NormLabel(c) == Lower(Strip(CollapseWs(c)))

MapLabelDescFirst(c) ==
    IF AnyIn(c, {"description", "merchant", "details", "transaction"}) THEN "description"
    ELSE IF AnyIn(c, {"post date", "transaction date", "date"}) THEN "date"
    ELSE IF AnyIn(c, {"amount", "amt", "value"}) THEN "amount"
    ELSE IF AnyIn(c, {"debit", "withdrawal", "charge", "dr"}) THEN "debit"
    ELSE IF AnyIn(c, {"credit", "payment", "deposit", "cr"}) THEN "credit"
    ELSE IF AnyIn(c, {"cardholder", "card holder", "member", "employee", "user"})
         THEN "cardholder"
    ELSE IF AnyIn(c, {"last4", "last 4", "card no", "card #", "card ending"})
         THEN "card_last4"
    ELSE c

MapLabelTxnAmount(c) ==
    IF AnyIn(c, {"post date", "transaction date", "date"}) THEN "date"
    ELSE IF AnyIn(c, {"description", "merchant", "details", "transaction"}) THEN "description"
    ELSE IF AnyIn(c, {"amount", "amt", "value"}) THEN "transaction amount"
    ELSE IF AnyIn(c, {"debit", "withdrawal", "charge", "dr"}) THEN "debit"
    ELSE IF AnyIn(c, {"credit", "payment", "deposit", "cr"}) THEN "credit"
    ELSE IF AnyIn(c, {"cardholder", "card holder", "member", "employee", "user"})
         THEN "cardholder"
    ELSE IF AnyIn(c, {"last4", "last 4", "card no", "card #", "card ending"})
         THEN "card_last4"
    ELSE c

\* the if/elif chain of _normalize_cols and the rename it feeds
MapLabel(c) ==
    IF AnyIn(c, {"post date", "transaction date", "date"}) THEN "date"
    ELSE IF AnyIn(c, {"description", "merchant", "details", "transaction"}) THEN "description"
    ELSE IF AnyIn(c, {"amount", "amt", "value"}) THEN "amount"
    ELSE IF AnyIn(c, {"debit", "withdrawal", "charge", "dr"}) THEN "debit"
    ELSE IF AnyIn(c, {"credit", "payment", "deposit", "cr"}) THEN "credit"
    ELSE IF AnyIn(c, {"cardholder", "card holder", "member", "employee", "user"})
         THEN "cardholder"
    ELSE IF AnyIn(c, {"last4", "last 4", "card no", "card #", "card ending"})
         THEN "card_last4"
    ELSE c

\* _normalize_cols on the column labels of a table
NormalizeLabels(cs) == [i \in 1..Len(cs) |-> MapLabel(NormLabel(cs[i]))]

----------------------------------------------------------------------------
(* Cells and floating point values                                         *)

\* a text cell, Python's None, and the float NaN that pandas uses for "missing"
Str(s) == [t |-> "str", s |-> s]
None == [t |-> "none"]
NaN == [t |-> "nan"]
\* a finite float m / 10^e and the infinities
Fin(m, e) == [t |-> "fin", m |-> m, e |-> e]
Inf(sg) == [t |-> "inf", sg |-> sg]
Zero == Fin(0, 0)

\* Series.isna(): None and NaN are missing, an infinity is not
IsNA(x) == x.t \in {"none", "nan"}

IsFinite(x) == x.t = "fin"

RECURSIVE Pow10(_)
Pow10(n) == IF n = 0 THEN 1 ELSE 10 * Pow10(n - 1)

\* the one representation of a finite value: no trailing zero in the fraction
RECURSIVE FinNorm(_, _)
FinNorm(m, e) == IF e > 0 /\ m % 10 = 0 THEN FinNorm(m \div 10, e - 1) ELSE Fin(m, e)

Max(a, b) == IF a >= b THEN a ELSE b

\* float subtraction a - b (IEEE: NaN is absorbing, inf - inf is NaN)
FSub(a, b) ==
    IF a.t = "nan" \/ b.t = "nan" THEN NaN
    ELSE IF a.t = "inf" THEN (IF b.t = "inf" /\ b.sg = a.sg THEN NaN ELSE a)
    ELSE IF b.t = "inf" THEN Inf(0 - b.sg)
    ELSE LET e == Max(a.e, b.e)
         IN  FinNorm(a.m * Pow10(e - a.e) - b.m * Pow10(e - b.e), e)

----------------------------------------------------------------------------
(* Numeric parsing: _series_to_numeric_aligned, cell by cell               *)

\* ser.fillna("").astype(str)
FillnaStr(x) == IF IsNA(x) THEN "" ELSE x.s

\* ser.str.replace(r"^\((.*)\)$", r"-\1", regex=True)
ParenToMinus(s) ==
    IF Len(s) >= 2 /\ Ch(s, 1) = "(" /\ Ch(s, Len(s)) = ")"
    THEN "-" \o SubSeq(s, 2, Len(s) - 1)
    ELSE s

RECURSIVE DigitsValue(_)
DigitsValue(s) ==
    IF s = "" THEN 0
    ELSE 10 * DigitsValue(SubSeq(s, 1, Len(s) - 1)) + (IndexIn(Ch(s, Len(s)), DigitChars) - 1)

DotCount(s) == Cardinality({i \in 1..Len(s) : Ch(s, i) = "."})

\* an unsigned decimal literal: digits with at most one point, at least one digit
IsDecimal(s) ==
    /\ HasDigit(s)
    /\ \A i \in 1..Len(s) : IsDigitCh(Ch(s, i)) \/ Ch(s, i) = "."
    /\ DotCount(s) <= 1

DecimalValue(s, sg) ==
    LET dot == IF DotCount(s) = 1 THEN CHOOSE i \in 1..Len(s) : Ch(s, i) = "." ELSE Len(s) + 1
        frac == IF dot > Len(s) THEN 0 ELSE Len(s) - dot
    IN  FinNorm(sg * DigitsValue(ReplaceCh(s, ".", "")), frac)

\* what pd.to_numeric(errors="coerce") makes of one non-empty text: a signed
\* decimal, the words inf, infinity and nan in any case, and NaN for the rest
\* (texts in exponent notation are outside the cell alphabet of the model)
ParseFloat(s) ==
    LET signed == s # "" /\ Ch(s, 1) \in {"+", "-"}
        sg == IF s # "" /\ Ch(s, 1) = "-" THEN 0 - 1 ELSE 1
        body == IF signed THEN Tail(s) ELSE s
    IN  IF Lower(body) \in {"inf", "infinity"} THEN Inf(sg)
        ELSE IF Lower(body) = "nan" THEN NaN
        ELSE IF IsDecimal(body) THEN DecimalValue(body, sg)
        ELSE NaN

\* pd.to_numeric(ser.replace("", pd.NA), errors="coerce")
ToNumeric(s) == IF s = "" THEN NaN ELSE ParseFloat(s)

\* .fillna(0.0)
FillnaZero(x) == IF IsNA(x) THEN Zero ELSE x

\* statement k of _series_to_numeric_aligned (lines 230-243) on one cell
NumStage(k, x) ==
    CASE k = 1 -> Strip(FillnaStr(x))
      [] k = 2 -> ParenToMinus(x)
      [] k = 3 -> ReplaceCh(x, ",", "")
      [] k = 4 -> ReplaceCh(x, "$", "")
      [] k = 5 -> ReplaceCh(x, NBSP, " ")
      [] k = 6 -> ReplaceCh(x, UMINUS, "-")
      [] k = 7 -> Strip(CollapseWs(x))
      [] k = 8 -> FillnaZero(ToNumeric(x))

NumStages == 8

RECURSIVE RunNumStages(_, _)
RunNumStages(k, x) == IF k = 0 THEN x ELSE NumStage(k, RunNumStages(k - 1, x))

\* _series_to_numeric_aligned for one cell of an existing column
NumericOfCell(x) == RunNumStages(NumStages, x)

\* the cell texts the numeric parser is run on
CellTexts ==
    { "$1,234.56", "(1,234.56)", "~1234.56", "1 234.56", "1^234.56", "1,234.56",
      "", " ", "-", "abc", "N/A", "$", "()", ".", "1.2.3", "12-",
      "inf", "-inf", "Infinity", "nan", "NaN",
      "4.50", "$4.50", "10.00", "$10.00", "0", "0.00", "-5", "+5", "(5)",
      " 12 ", "5.", ".5", "($4.50)", "~ 5" }

CellInputs == {Str(s) : s \in CellTexts} \cup {None, NaN}

NumInit == cell \in CellInputs /\ ser = cell /\ num_pc = 0

\* the next statement of _series_to_numeric_aligned
NumStep ==
    /\ num_pc < NumStages
    /\ ser' = NumStage(num_pc + 1, ser)
    /\ num_pc' = num_pc + 1
    /\ UNCHANGED cell

----------------------------------------------------------------------------
(* Tables (DataFrames)                                                     *)

\* A DataFrame: st is "ok", or "raise" once a statement raised; cols are the
\* column labels, in order and possibly repeated; rows[i][j] is the cell of row
\* i in column j; idx[i] is the index label of row i; org[i] is the label the
\* row had when header promotion was over (a history field, never read by the
\* operations).
Table(cs, rs) ==
    [st |-> "ok", cols |-> cs, rows |-> rs,
     idx |-> [i \in 1..Len(rs) |-> i - 1], org |-> [i \in 1..Len(rs) |-> i - 1]]

\* pd.DataFrame()
EmptyTable == Table(<< >>, << >>)

\* df.empty
IsEmptyTable(df) == Len(df.rows) = 0 \/ Len(df.cols) = 0

Raised(df) == [df EXCEPT !.st = "raise"]

RECURSIVE SortedSeq(_)
SortedSeq(S) ==
    IF S = {} THEN << >>
    ELSE LET mn == CHOOSE x \in S : \A y \in S : x <= y
         IN  <<mn>> \o SortedSeq(S \ {mn})

\* the rows at the positions K, in order (boolean indexing of rows)
KeepRows(df, K) ==
    LET ks == SortedSeq(K)
    IN  [df EXCEPT !.rows = [i \in 1..Len(ks) |-> df.rows[ks[i]]],
                   !.idx = [i \in 1..Len(ks) |-> df.idx[ks[i]]],
                   !.org = [i \in 1..Len(ks) |-> df.org[ks[i]]]]

\* the columns at the positions ks, in that order
TakeCols(df, ks) ==
    [df EXCEPT !.cols = [j \in 1..Len(ks) |-> df.cols[ks[j]]],
               !.rows = [i \in 1..Len(df.rows) |->
                            [j \in 1..Len(ks) |-> df.rows[i][ks[j]]]]]

ColPositions(df, name) == {j \in 1..Len(df.cols) : df.cols[j] = name}

\* name in df.columns
HasCol(df, name) == ColPositions(df, name) # {}

\* the first column of that name (ser.iloc[:, 0] when the name is repeated)
FirstCol(df, name) == CHOOSE j \in ColPositions(df, name) : \A k \in ColPositions(df, name) : j <= k

\* the cell of row i in the first column called name
CellAt(df, i, name) == df.rows[i][FirstCol(df, name)]

\* df[name] = vals: every column of that name takes the values
SetCol(df, name, vals) ==
    [df EXCEPT !.rows = [i \in 1..Len(df.rows) |->
        [j \in 1..Len(df.cols) |-> IF df.cols[j] = name THEN vals[i] ELSE df.rows[i][j]]]]

\* df[name] = vals for a new column: appended as the last column
AddCol(df, name, vals) ==
    [df EXCEPT !.cols = Append(df.cols, name),
               !.rows = [i \in 1..Len(df.rows) |-> Append(df.rows[i], vals[i])]]

\* str(x) of a raw cell
AsStr(x) == IF x.t = "str" THEN x.s ELSE IF x.t = "none" THEN "None" ELSE "nan"

----------------------------------------------------------------------------
(* Row cleaner: the statements of _clean_rows                              *)

\* lines 262-270: a first row with too few digit-bearing cells and some letter
\* becomes the header, and the index restarts
PromoteHeader(df) ==
    LET first == df.rows[1]
        n == Len(first)
        texts == [j \in 1..n |-> Strip(AsStr(first[j]))]
        numeric_count == Cardinality({j \in 1..n : HasDigit(texts[j])})
    IN  IF numeric_count < Max(1, n \div 3) /\ (\E j \in 1..n : HasLetter(texts[j]))
        THEN Table([j \in 1..n |-> NormLabel(AsStr(first[j]))], Tail(df.rows))
        ELSE df

\* line 273: _normalize_cols(df)
_normalize_cols(df) == [df EXCEPT !.cols = NormalizeLabels(df.cols)]

\* line 276: df.loc[:, ~(df.isna().all())]
DropEmptyCols(df) ==
    TakeCols(df, SortedSeq({j \in 1..Len(df.cols) :
                              ~(\A i \in 1..Len(df.rows) : IsNA(df.rows[i][j]))}))

\* line 279: df.dropna(how="all")
DropEmptyRows(df) ==
    KeepRows(df, {i \in 1..Len(df.rows) :
                    ~(\A j \in 1..Len(df.cols) : IsNA(df.rows[i][j]))})

SeparatorTexts == {"", "-", EMDASH, ENDASH}

\* a cleaner that leaves the separator rows in
KeepSeparatorRows(df) == df

\* line 282; on a frame without rows df.apply(..., axis=1) gives an empty float
\* Series, which ~ cannot invert, and the statement raises
DropSeparatorRows(df) ==
    IF Len(df.rows) = 0 THEN Raised(df)
    ELSE KeepRows(df, {i \in 1..Len(df.rows) :
                         ~(\A j \in 1..Len(df.cols) :
                               Strip(AsStr(df.rows[i][j])) \in SeparatorTexts)})

\* lines 285-286; two description columns make df["description"] a frame,
\* which has no .str, and the statement raises
NormalizeDescription(df) ==
    IF ~HasCol(df, "description") THEN df
    ELSE IF Cardinality(ColPositions(df, "description")) > 1 THEN Raised(df)
    ELSE SetCol(df, "description",
                [i \in 1..Len(df.rows) |->
                    Str(Strip(CollapseWs(AsStr(CellAt(df, i, "description")))))])

\* _series_to_numeric_aligned(df, col): zeros for a missing column
\* a parser that gives a missing value, not 0.0, for a column the table lacks
SeriesMissingAsNaN(df, col) ==
    [i \in 1..Len(df.rows) |->
        IF HasCol(df, col) THEN NumericOfCell(CellAt(df, i, col)) ELSE NaN]

_series_to_numeric_aligned(df, col) ==
    [i \in 1..Len(df.rows) |->
        IF HasCol(df, col) THEN NumericOfCell(CellAt(df, i, col)) ELSE Zero]

DeriveAmountDebitMinusCredit(df) ==
    IF HasCol(df, "amount")
    THEN SetCol(df, "amount", _series_to_numeric_aligned(df, "amount"))
    ELSE LET debit_ser == _series_to_numeric_aligned(df, "debit")
             credit_ser == _series_to_numeric_aligned(df, "credit")
         IN  AddCol(df, "amount",
                    [i \in 1..Len(df.rows) |-> FSub(debit_ser[i], credit_ser[i])])

\* lines 289-300
DeriveAmount(df) ==
    IF HasCol(df, "amount")
    THEN SetCol(df, "amount", _series_to_numeric_aligned(df, "amount"))
    ELSE LET debit_ser == _series_to_numeric_aligned(df, "debit")
             credit_ser == _series_to_numeric_aligned(df, "credit")
         IN  AddCol(df, "amount",
                    [i \in 1..Len(df.rows) |-> FSub(credit_ser[i], debit_ser[i])])

AllDigits(s) == s # "" /\ \A i \in 1..Len(s) : IsDigitCh(Ch(s, i))

ValidYMD(y, m, d) ==
    /\ AllDigits(y) /\ AllDigits(m) /\ AllDigits(d)
    /\ DigitsValue(m) \in 1..12
    /\ DigitsValue(d) \in 1..31

\* pd.to_datetime(text, errors="coerce") then strftime("%Y-%m-%d"): the two
\* layouts MM/DD/YYYY and YYYY-MM-DD are read, any other text of the model's
\* date alphabet is not a date and gives NaN
ParseDate(s) ==
    IF Len(s) = 10 /\ Ch(s, 3) = "/" /\ Ch(s, 6) = "/"
       /\ ValidYMD(SubSeq(s, 7, 10), SubSeq(s, 1, 2), SubSeq(s, 4, 5))
    THEN Str(SubSeq(s, 7, 10) \o "-" \o SubSeq(s, 1, 2) \o "-" \o SubSeq(s, 4, 5))
    ELSE IF Len(s) = 10 /\ Ch(s, 5) = "-" /\ Ch(s, 8) = "-"
            /\ ValidYMD(SubSeq(s, 1, 4), SubSeq(s, 6, 7), SubSeq(s, 9, 10))
    THEN Str(s)
    ELSE NaN

\* lines 306-311; two date columns make the argument of to_datetime a frame
\* without year/month/day columns, and the statement raises
NormalizeDate(df) ==
    IF ~HasCol(df, "date") THEN df
    ELSE IF Cardinality(ColPositions(df, "date")) > 1 THEN Raised(df)
    ELSE SetCol(df, "date",
                [i \in 1..Len(df.rows) |-> ParseDate(AsStr(CellAt(df, i, "date")))])

\* lines 314-317; with two amount columns the mask of line 317 is a frame of
\* another shape than df, and the statement raises
FilterRows(df) ==
    LET d1 == IF HasCol(df, "description")
              THEN KeepRows(df, {i \in 1..Len(df.rows) :
                                   Len(AsStr(CellAt(df, i, "description"))) > 0})
              ELSE df
    IN  IF ~HasCol(d1, "amount") THEN d1
        ELSE IF Cardinality(ColPositions(d1, "amount")) > 1 THEN Raised(d1)
        ELSE KeepRows(d1, {i \in 1..Len(d1.rows) : ~IsNA(CellAt(d1, i, "amount"))})

\* how drop_duplicates compares a row: missing values are all alike
RowKey(row) == [j \in 1..Len(row) |-> IF IsNA(row[j]) THEN NaN ELSE row[j]]

\* df.loc[:, ~df.columns.duplicated()]
DropDuplicateCols(df) ==
    TakeCols(df, SortedSeq({j \in 1..Len(df.cols) :
                              ~(\E k \in 1..(j - 1) : df.cols[k] = df.cols[j])}))

\* df.drop_duplicates(): the first of equal rows stays
DropDuplicateRows(df) ==
    KeepRows(df, {i \in 1..Len(df.rows) :
                    ~(\E k \in 1..(i - 1) : RowKey(df.rows[k]) = RowKey(df.rows[i]))})

\* .reset_index(drop=True)
ResetIndex(df) == [df EXCEPT !.idx = [i \in 1..Len(df.rows) |-> i - 1]]

DeduplicateRowsFirst(df) == ResetIndex(DropDuplicateCols(DropDuplicateRows(df)))

\* lines 320-321
Deduplicate(df) == ResetIndex(DropDuplicateRows(DropDuplicateCols(df)))

Preferred == <<"date", "description", "amount", "cardholder", "card_last4">>

\* a cleaner that leaves the columns in the order it finds them in
KeepColumnOrder(df) == df

\* lines 324-326 (the columns are distinct here)
ReorderCols(df) ==
    LET preferred == SortedSeq({p \in 1..Len(Preferred) : HasCol(df, Preferred[p])})
        other == SortedSeq({j \in 1..Len(df.cols) :
                              ~(\E p \in 1..Len(Preferred) : Preferred[p] = df.cols[j])})
    IN  TakeCols(df, [p \in 1..Len(preferred) |-> FirstCol(df, Preferred[preferred[p]])]
                     \o other)

\* statement k of _clean_rows, lines 262-326
CleanStage(k, df) ==
    CASE k = 1 -> PromoteHeader(df)
      [] k = 2 -> _normalize_cols(df)
      [] k = 3 -> DropEmptyCols(df)
      [] k = 4 -> DropEmptyRows(df)
      [] k = 5 -> DropSeparatorRows(df)
      [] k = 6 -> NormalizeDescription(df)
      [] k = 7 -> DeriveAmount(df)
      [] k = 8 -> NormalizeDate(df)
      [] k = 9 -> FilterRows(df)
      [] k = 10 -> Deduplicate(df)
      [] k = 11 -> ReorderCols(df)
      [] k = 12 -> ResetIndex(DropDuplicateCols(df))

\* the statements of _clean_rows, and with line 339 of clean_transaction_table
RowStages == 11
CleanStages == 12

StPromote == 1
StNormalize == 2
StSeparators == 5
StAmount == 7
StDate == 8
StDedup == 10
StReorder == 11

\* _clean_rows up to and including statement k; a raise ends the function
RECURSIVE RunCleanStages(_, _)
RunCleanStages(k, df) ==
    IF k = 0 THEN df
    ELSE LET before == RunCleanStages(k - 1, df)
         IN  IF before.st = "raise" THEN before ELSE CleanStage(k, before)

\* _clean_rows: an empty frame is returned as pd.DataFrame() at once
_clean_rows(df) == IF IsEmptyTable(df) THEN EmptyTable ELSE RunCleanStages(RowStages, df)

\* clean_transaction_table: _clean_rows, then its own duplicate-column drop and
\* index reset
clean_transaction_table(df) ==
    IF IsEmptyTable(df) THEN EmptyTable ELSE RunCleanStages(CleanStages, df)

----------------------------------------------------------------------------
(* Column normalization runs                                               *)

MaxLabels == 2
MaxNormalize == 2

RawLabels ==
    { "Date", "Post Date", "Transaction Date", "Transaction", "Description", "Desc",
      "Merchant Name", "Amount", "Amt", "Value Date", "Debit", "Withdrawal",
      "Charge Amount", "Credit", "Payment Date", "Cr", "Card Holder",
      "User", "Last 4", "Card #", "Balance", "", "  Trans \t Date ",
      "Address", "REF^NO",
      "date", "description", "amount", "debit", "credit", "cardholder", "card_last4" }

Canonical == {"date", "description", "amount", "debit", "credit", "cardholder", "card_last4"}

RECURSIVE SeqsUpTo(_, _)
SeqsUpTo(S, n) ==
    IF n = 0 THEN {<< >>}
    ELSE LET shorter == SeqsUpTo(S, n - 1)
         IN  shorter \cup {Append(q, x) : q \in shorter, x \in S}

ColInit ==
    /\ labels \in SeqsUpTo(RawLabels, MaxLabels) \ {<< >>}
    /\ cols = labels
    /\ prev_cols = labels
    /\ norm_n = 0

\* one call of _normalize_cols on the table's current columns
NormalizeCols ==
    /\ norm_n < MaxNormalize
    /\ cols' = NormalizeLabels(cols)
    /\ prev_cols' = cols
    /\ norm_n' = norm_n + 1
    /\ UNCHANGED labels

----------------------------------------------------------------------------
(* Cleaning runs: the raw tables one extraction can hand to the cleaner     *)

MaxRows == 2

\* a raw row written as texts; "#None" is an absent cell (pdfplumber's None)
RowOf(texts) == [j \in 1..Len(texts) |-> IF texts[j] = "#None" THEN None ELSE Str(texts[j])]

DebitCreditRows ==
    { <<"01/02/2024", "COFFEE SHOP", "$4.50", "">>,
      <<"01/03/2024", "REFUND", "", "$10.00">>,
      <<"01/04/2024", "TRANSFER", "5.00", "2.50">>,
      <<"pending", "FEE", "abc", "#None">>,
      <<"01/05/2024", "WIRE", "inf", "inf">>,
      <<"-", "-", "-", "-">>,
      <<"01/06/2024", "#None", "(1.00)", "">> }

AmountRows ==
    { <<"01/02/2024", "COFFEE  SHOP", "$1,234.56">>,
      <<"01/03/2024", "REFUND", "(10.00)">>,
      <<"01/04/2024", "NO AMOUNT", "">>,
      <<"01/05/2024", "TEXT AMOUNT", "N/A">>,
      <<"2024-01-06", "INF AMOUNT", "inf">>,
      <<"01/07/2024", "NULL AMOUNT", "#None">>,
      <<"01/08/2024", " ", "5">>,
      <<"#None", "#None", "#None">> }

OneSidedRows ==
    { <<"01/02/2024", "ATM", "20.00">>,
      <<"01/03/2024", "ATM", "20.00">>,
      <<"01/04/2024", "CHECK", "">>,
      <<"", "", "">> }

TwoColumnRows ==
    { <<"01/02/2024", "COFFEE SHOP">>, <<"01/03/2024", "REFUND">>, <<"n/a", "">> }

NoDescriptionRows ==
    { <<"01/02/2024", "5.00">>, <<"01/03/2024", "(2.50)">> }

RepeatedColumnRows ==
    { <<"01/02/2024", "STORE", "1.00", "2.00">>,
      <<"01/02/2024", "STORE", "1.00", "3.00">>,
      <<"01/02/2024", "STORE", "1.50", "2.00">>,
      <<"01/02/2024", "STORE", "$1.00", "2.00">> }

CardholderRows ==
    { <<"01/02/2024", "COFFEE SHOP", "4.50", "ALICE">>,
      <<"01/03/2024", "REFUND", "-10.00", "BOB">>,
      <<"01/04/2024", "FEE", "1.00", "#None">> }

\* blank rows and rows of dashes
BlankSeparatorRows ==
    { <<"", "", "", "">>, <<"-", "-", "-", "-">> }

\* the headers the extraction finds, each with the rows found under it
Layouts ==
    { [header |-> <<"Date", "Desc", "Debit", "Credit">>, rows |-> DebitCreditRows],
      [header |-> <<"Date", "Description", "Debit", "Credit">>, rows |-> DebitCreditRows],
      [header |-> <<"Date", "Description", "Amount">>, rows |-> AmountRows],
      [header |-> <<"Post Date", "Merchant", "Withdrawal">>, rows |-> OneSidedRows],
      [header |-> <<"Date", "Details", "Deposit">>, rows |-> OneSidedRows],
      [header |-> <<"Date", "Details">>, rows |-> TwoColumnRows],
      [header |-> <<"Date", "Description", "Debit", "Charge">>, rows |-> RepeatedColumnRows],
      [header |-> <<"Date", "Merchant", "Details", "Amount">>, rows |-> RepeatedColumnRows],
      [header |-> <<"Date", "Description", "Amount", "Cardholder">>, rows |-> CardholderRows],
      [header |-> <<"Date", "Amount">>, rows |-> NoDescriptionRows],
      [header |-> <<"", "", "", "">>, rows |-> BlankSeparatorRows] }

\* pdfplumber (line 148): the first extracted row is the header of the frame
HeaderTable(header, rowTexts) ==
    Table(header, [i \in 1..Len(rowTexts) |-> RowOf(rowTexts[i])])

\* Camelot (line 97): positional column labels, the header is the first row
PositionalTable(header, rowTexts) ==
    Table([j \in 1..Len(header) |-> Ch(DigitChars, j)],
          <<RowOf(header)>> \o [i \in 1..Len(rowTexts) |-> RowOf(rowTexts[i])])

TablesOf(l) ==
    UNION { {HeaderTable(l.header, rs), PositionalTable(l.header, rs)} :
            rs \in SeqsUpTo(l.rows, MaxRows) \ {<< >>} }

RawTables == UNION {TablesOf(l) : l \in Layouts}

CleanInit ==
    /\ frame \in RawTables
    /\ hist = <<frame>>
    /\ clean_pc = 0

\* the next statement of clean_transaction_table; hist[k + 1] is the frame after
\* statement k
CleanStep ==
    /\ clean_pc < CleanStages
    /\ frame.st = "ok"
    /\ frame' = CleanStage(clean_pc + 1, frame)
    /\ hist' = Append(hist, frame')
    /\ clean_pc' = clean_pc + 1

----------------------------------------------------------------------------
(* extract_all_tables: the extraction strategies of one PDF                *)

\* what one call of a library does: it finds a table, finds none, or raises
CallResults == {"table", "none", "error"}

\* Camelot: the import fails (line 56 raises RuntimeError) or read_pdf is called
\* once per flavor
CamelotOutcomes ==
    {[import |-> "missing"]} \cup
    [import : {"ok"}, lattice : CallResults, stream : CallResults]

\* tabula-py: the import fails (line 72 returns None) or read_pdf is called with
\* lattice=True and with lattice=False
TabulaOutcomes ==
    {[import |-> "missing"]} \cup
    [import : {"ok"}, lattice : CallResults, stream : CallResults]

\* pdfplumber: the import fails (line 80 raises RuntimeError), opening the PDF
\* or reading its pages raises, or the page is read
PlumberOutcomes ==
    {[import |-> "missing"], [import |-> "ok", open |-> "error"]} \cup
    [import : {"ok"}, open : {"ok"}, page : CallResults]

StrategyOutcomes == [camelot : CamelotOutcomes, tabula : TabulaOutcomes, plumber : PlumberOutcomes]

\* the value of a call: the list it returns, or the exception it raises
Returns(tables) == [st |-> "ok", tables |-> tables]
Raises(exc) == [st |-> exc, tables |-> << >>]

\* a candidate is named by the strategy that found it
Found(call_result, strategy) == IF call_result = "table" THEN <<strategy>> ELSE << >>

\* lines 86-104: each flavor runs inside try/except Exception
extract_with_camelot(o) ==
    IF o.import = "missing" THEN Raises("RuntimeError")
    ELSE Returns(Found(o.lattice, "camelot_lattice") \o Found(o.stream, "camelot_stream"))

\* lines 107-127: a missing tabula gives [], each call runs inside try/except
extract_with_tabula(o) ==
    IF o.import = "missing" THEN Returns(<< >>)
    ELSE Returns(Found(o.lattice, "tabula_lattice") \o Found(o.stream, "tabula_stream"))

\* lines 130-154: only the work on one page runs inside try/except; the open
\* of line 136 does not
extract_with_pdfplumber(o) ==
    IF o.import = "missing" THEN Raises("RuntimeError")
    ELSE IF o.open = "error" THEN Raises("Exception")
    ELSE Returns(Found(o.page, "pdfplumber"))

\* lines 162-165
ExtractStage1(o, acc) ==
    LET r == extract_with_camelot(o.camelot)
    IN  IF r.st \in {"ok", "RuntimeError"} THEN Returns(acc.tables \o r.tables) ELSE Raises(r.st)

\* line 167
ExtractStage2(o, acc) ==
    LET r == extract_with_tabula(o.tabula)
    IN  IF r.st = "ok" THEN Returns(acc.tables \o r.tables) ELSE Raises(r.st)

\* lines 169-172: except RuntimeError only
ExtractStage3(o, acc) ==
    LET r == extract_with_pdfplumber(o.plumber)
    IN  IF r.st \in {"ok", "RuntimeError"} THEN Returns(acc.tables \o r.tables) ELSE Raises(r.st)

ExtractStages == 3

ExtractStage(k, o, acc) ==
    IF k = 1 THEN ExtractStage1(o, acc)
    ELSE IF k = 2 THEN ExtractStage2(o, acc)
    ELSE ExtractStage3(o, acc)

\* lines 157-174
extract_all_tables(o) ==
    LET a1 == ExtractStage1(o, Returns(<< >>))
        a2 == IF a1.st = "ok" THEN ExtractStage2(o, a1) ELSE a1
    IN  IF a2.st = "ok" THEN ExtractStage3(o, a2) ELSE a2

ExtractInit ==
    /\ strategies \in StrategyOutcomes
    /\ ex_pc = 0
    /\ raw_candidates = Returns(<< >>)

\* the next statement of extract_all_tables
ExtractStep ==
    /\ ex_pc < ExtractStages
    /\ raw_candidates.st = "ok"
    /\ raw_candidates' = ExtractStage(ex_pc + 1, strategies, raw_candidates)
    /\ ex_pc' = ex_pc + 1
    /\ UNCHANGED strategies

----------------------------------------------------------------------------
(* process_folder: cleaning loop, union-schema combiner, final sanitizer    *)

MaxTables == 2

RECURSIVE SeqOfSet(_)
SeqOfSet(S) ==
    IF S = {} THEN << >>
    ELSE LET x == CHOOSE y \in S : TRUE IN <<x>> \o SeqOfSet(S \ {x})

\* the candidate tables of a folder: every layout with all of its rows, in the
\* shape pdfplumber gives and in the shape Camelot gives
FolderTables ==
    UNION { {HeaderTable(l.header, SeqOfSet(l.rows)), PositionalTable(l.header, SeqOfSet(l.rows))} :
            l \in Layouts }

\* lines 389-393: the union of the columns, in first-seen order
RECURSIVE UnionColumns(_)
UnionColumns(dfs) ==
    IF dfs = << >> THEN << >>
    ELSE LET before == UnionColumns(SubSeq(dfs, 1, Len(dfs) - 1))
             last == dfs[Len(dfs)]
             new == SortedSeq({j \in 1..Len(last.cols) :
                                 ~(\E k \in 1..Len(before) : before[k] = last.cols[j])})
         IN  before \o [j \in 1..Len(new) |-> last.cols[new[j]]]

ReindexByPosition(df, columns) ==
    [df EXCEPT !.cols = columns,
               !.rows = [i \in 1..Len(df.rows) |->
                   [j \in 1..Len(columns) |->
                       IF j <= Len(df.cols) THEN df.rows[i][j] ELSE NaN]]]

\* line 398: df.reindex(columns=all_columns), NaN in the columns df lacks
Reindex(df, columns) ==
    [df EXCEPT !.cols = columns,
               !.rows = [i \in 1..Len(df.rows) |->
                   [j \in 1..Len(columns) |->
                       IF HasCol(df, columns[j]) THEN CellAt(df, i, columns[j]) ELSE NaN]]]

\* line 402: pd.concat(reindexed, ignore_index=True); org[i] names the cleaned
\* table and the row of it that row i comes from
RECURSIVE Concat(_, _)
Concat(dfs, columns) ==
    IF dfs = << >> THEN [st |-> "ok", cols |-> columns, rows |-> << >>, idx |-> << >>, org |-> << >>]
    ELSE LET before == Concat(SubSeq(dfs, 1, Len(dfs) - 1), columns)
             last == dfs[Len(dfs)]
         IN  [before EXCEPT
                !.rows = before.rows \o last.rows,
                !.idx = [i \in 1..(Len(before.rows) + Len(last.rows)) |-> i - 1],
                !.org = before.org \o [i \in 1..Len(last.rows) |-> <<Len(dfs), i>>]]

\* a combiner that keeps only the columns of the first table
CombineOnFirstColumns(dfs) ==
    Concat([t \in 1..Len(dfs) |-> ResetIndex(Reindex(dfs[t], dfs[1].cols))], dfs[1].cols)

\* a combiner that drops the rows repeated across tables
CombineDropDuplicates(dfs) ==
    LET all == Concat([t \in 1..Len(dfs) |-> ResetIndex(Reindex(dfs[t], UnionColumns(dfs)))],
                      UnionColumns(dfs))
    IN  KeepRows(all, {i \in 1..Len(all.rows) :
                         ~(\E k \in 1..(i - 1) : all.rows[k] = all.rows[i])})

\* lines 395-402
Combine(dfs) ==
    Concat([t \in 1..Len(dfs) |-> ResetIndex(Reindex(dfs[t], UnionColumns(dfs)))],
           UnionColumns(dfs))

\* pd.to_numeric(x, errors="coerce") of one value of the combined amount column
CoerceNumber(x) == IF x.t = "str" THEN ToNumeric(x.s) ELSE IF x.t = "none" THEN NaN ELSE x

\* lines 405-410: the final sanitization
Sanitize(df) ==
    LET d1 == IF HasCol(df, "amount")
              THEN LET num == SetCol(df, "amount",
                                     [i \in 1..Len(df.rows) |-> CoerceNumber(CellAt(df, i, "amount"))])
                   IN  KeepRows(num, {i \in 1..Len(num.rows) : ~IsNA(CellAt(num, i, "amount"))})
              ELSE df
    IN  IF HasCol(d1, "description")
        THEN KeepRows(d1, {i \in 1..Len(d1.rows) : Len(AsStr(CellAt(d1, i, "description"))) > 0})
        ELSE d1

\* the candidate tables a strategy can find: Camelot frames have positional
\* labels (line 97), tabula and pdfplumber frames have the first row as header
TablesFrom(strategy) ==
    {t \in FolderTables :
        (t.cols[1] = "0") <=> (strategy \in {"camelot_lattice", "camelot_stream"})}

\* clean_transaction_table of each candidate table
CleanedOf == [t \in FolderTables |-> clean_transaction_table(t)]

\* what extract_all_tables can give for one PDF
ExtractResults == {extract_all_tables(o) : o \in StrategyOutcomes}

INPUT_FOLDER == "./statements"

\* os.listdir of the input folder: the entries come in any order
Listings ==
    { << >>,
      <<"notes.txt">>,
      <<"A.PDF">>,
      <<"b.pdf", "A.PDF">>,
      <<"A.PDF", "notes.txt", "b.pdf">> }

\* the characters of the paths, in the order of their code points
CodePoints == "./0123456789ABCDEFGHIJKLMNOPQRSTUVWXYZ_abcdefghijklmnopqrstuvwxyz"

\* a < b on Python str
RECURSIVE StrLess(_, _)
StrLess(a, b) ==
    IF b = "" THEN FALSE
    ELSE IF a = "" THEN TRUE
    ELSE IF Ch(a, 1) = Ch(b, 1) THEN StrLess(Tail(a), Tail(b))
    ELSE IndexIn(Ch(a, 1), CodePoints) < IndexIn(Ch(b, 1), CodePoints)

\* sorted(...) of a list of distinct strings
RECURSIVE SortedStrs(_)
SortedStrs(S) ==
    IF S = {} THEN << >>
    ELSE LET mn == CHOOSE x \in S : \A y \in S \ {x} : StrLess(x, y)
         IN  <<mn>> \o SortedStrs(S \ {mn})

EndsWith(s, suffix) ==
    Len(s) >= Len(suffix) /\ SubSeq(s, Len(s) - Len(suffix) + 1, Len(s)) = suffix

\* the position of the last c in s, 0 when there is none
LastIndexOf(s, c) ==
    LET at == {i \in 1..Len(s) : Ch(s, i) = c}
    IN  IF at = {} THEN 0 ELSE CHOOSE i \in at : \A k \in at : k <= i

\* line 354
PdfFiles(entries) ==
    SortedStrs({INPUT_FOLDER \o "/" \o entries[i] :
                  i \in {k \in 1..Len(entries) : EndsWith(Lower(entries[k]), ".pdf")}})

\* line 367: os.path.splitext(os.path.basename(pdf_path))[0]
Base(pdf_path) ==
    LET name == SubSeq(pdf_path, LastIndexOf(pdf_path, "/") + 1, Len(pdf_path))
        dot == LastIndexOf(name, ".")
    IN  IF dot <= 1 THEN name ELSE SubSeq(name, 1, dot - 1)

\* line 375
PerTableCsv(pdf_path, i) == Base(pdf_path) \o "_table_" \o Ch(DigitChars, i + 1) \o ".csv"

ColSet(df) == {df.cols[j] : j \in 1..Len(df.cols)}

\* df.to_dict(orient="records")
ToDictRecords(df) ==
    [i \in 1..Len(df.rows) |-> [c \in ColSet(df) |-> CellAt(df, i, c)]]

\* g.drop(columns=[name])
DropColumn(df, name) ==
    TakeCols(df, SortedSeq({j \in 1..Len(df.cols) : df.cols[j] # name}))

\* the keys of groupby("cardholder"): missing values form no group
GroupKeys(df) ==
    {CellAt(df, i, "cardholder") : i \in 1..Len(df.rows)} \ {None, NaN}

\* a grouping that leaves the cardholder field in the rows
GroupKeepingCardholder(df) ==
    [k \in GroupKeys(df) |->
        ToDictRecords(KeepRows(df, {i \in 1..Len(df.rows) : CellAt(df, i, "cardholder") = k}))]

\* lines 419-423 when there is a group
GroupByCardholder(df) ==
    [k \in GroupKeys(df) |->
        ToDictRecords(DropColumn(
            KeepRows(df, {i \in 1..Len(df.rows) : CellAt(df, i, "cardholder") = k}),
            "cardholder"))]

\* lines 418-425; with no group at all the applied groupby gives an empty
\* frame, whose to_dict() is {} or, when the frame keeps the columns, a mapping
\* from each column to {}, depending on the pandas at hand
GroupedResults(df) ==
    IF HasCol(df, "cardholder")
    THEN IF GroupKeys(df) # {} THEN {GroupByCardholder(df)}
         ELSE {<< >>, [c \in ColSet(df) |-> << >>]}
    ELSE {[k \in {"transactions"} |-> ToDictRecords(df)]}

\* a loop that keeps every table that cleans without raising
KeepsEveryCleaned(cleaned) == cleaned.st = "ok"

\* lines 370-373 and 380: the table goes on when cleaning did not raise and
\* the cleaned frame is not empty
Keeps(cleaned) == cleaned.st = "ok" /\ ~IsEmptyTable(cleaned)

FolderInit ==
    /\ listing \in Listings
    /\ pdf_files = << >>
    /\ pdf_i = 0
    /\ raw_tables = << >>
    /\ tbl_i = 0
    /\ sources = << >>
    /\ pf_pc = "start"
    /\ seen = 0
    /\ all_cleaned = << >>
    /\ all_columns = << >>
    /\ combined = EmptyTable
    /\ ledger = EmptyTable
    /\ files = {}
    /\ grouped = << >>
    /\ skipped = << >>

\* lines 354-357: the sorted PDFs of the folder; none: return {}
ListPdfs ==
    /\ pf_pc = "start"
    /\ pdf_files' = PdfFiles(listing)
    /\ pf_pc' = IF pdf_files' = << >> THEN "empty" ELSE "pdf"
    /\ UNCHANGED <<listing, pdf_i, raw_tables, tbl_i, sources, seen, all_cleaned,
                   all_columns, combined, ledger, files, grouped, skipped>>

\* lines 360-365: the next PDF is extracted, outside any try: what
\* extract_all_tables raises ends process_folder
ExtractTables ==
    /\ pf_pc = "pdf"
    /\ pdf_i < Len(pdf_files)
    /\ pdf_i' = pdf_i + 1
    /\ \E r \in ExtractResults :
          /\ seen + Len(r.tables) <= MaxTables
          /\ IF r.st # "ok"
             THEN pf_pc' = "raise" /\ UNCHANGED <<raw_tables, tbl_i>>
             ELSE /\ raw_tables' = r.tables
                  /\ tbl_i' = 0
                  /\ pf_pc' = IF r.tables = << >> THEN "pdf" ELSE "tables"
    /\ UNCHANGED <<listing, pdf_files, sources, seen, all_cleaned, all_columns,
                   combined, ledger, files, grouped, skipped>>

\* why lines 369-382 pass over a table: the cleaning raised, the cleaned frame
\* is empty, or to_csv raised
WhySkipped(cleaned, saved) ==
    IF cleaned.st = "raise" THEN "cleaning raised"
    ELSE IF IsEmptyTable(cleaned) THEN "empty"
    ELSE IF ~saved THEN "saving raised"
    ELSE "kept"

\* lines 368-382: one candidate table is cleaned; a table that raises, in
\* cleaning or in to_csv, or cleans to an empty frame is skipped, another one
\* is saved and kept; after the last candidate of the PDF the list of
\* candidates is of no more use
CleanCandidate ==
    /\ pf_pc = "tables"
    /\ tbl_i < Len(raw_tables)
    /\ \E tbl \in TablesFrom(raw_tables[tbl_i + 1]), saved \in BOOLEAN :
          LET cleaned == CleanedOf[tbl]
          IN  IF Keeps(cleaned) /\ saved
              THEN /\ all_cleaned' = Append(all_cleaned, cleaned)
                   /\ sources' = Append(sources, <<pdf_files[pdf_i], tbl_i>>)
                   /\ files' = files \cup {PerTableCsv(pdf_files[pdf_i], tbl_i)}
                   /\ UNCHANGED skipped
              ELSE /\ skipped' = Append(skipped, <<pdf_files[pdf_i], tbl_i,
                                                   WhySkipped(cleaned, saved)>>)
                   /\ UNCHANGED <<all_cleaned, sources, files>>
    /\ seen' = seen + 1
    /\ IF tbl_i + 1 = Len(raw_tables)
       THEN pf_pc' = "pdf" /\ raw_tables' = << >> /\ tbl_i' = 0
       ELSE pf_pc' = "tables" /\ raw_tables' = raw_tables /\ tbl_i' = tbl_i + 1
    /\ UNCHANGED <<listing, pdf_files, pdf_i, all_columns, combined, ledger, grouped>>

\* lines 384-386: nothing to combine
ReturnEmpty ==
    /\ pf_pc = "pdf"
    /\ pdf_i = Len(pdf_files)
    /\ all_cleaned = << >>
    /\ pf_pc' = "empty"
    /\ UNCHANGED <<listing, pdf_files, pdf_i, raw_tables, tbl_i, sources, seen,
                   all_cleaned, all_columns, combined, ledger, files, grouped, skipped>>

\* lines 388-433: combine, sanitize, save and group
CombineAndSave ==
    /\ pf_pc = "pdf"
    /\ pdf_i = Len(pdf_files)
    /\ all_cleaned # << >>
    /\ all_columns' = UnionColumns(all_cleaned)
    /\ combined' = Combine(all_cleaned)
    /\ ledger' = Sanitize(combined')
    /\ files' = files \cup {"all_transactions.csv", "all_transactions.json"}
    /\ grouped' \in GroupedResults(ledger')
    /\ pf_pc' = "done"
    /\ UNCHANGED <<listing, pdf_files, pdf_i, raw_tables, tbl_i, sources, seen,
                   all_cleaned, skipped>>

----------------------------------------------------------------------------
(* src/services/parser.py: the line items of one analysed document         *)

\* an entity of the analysed document: the slices of the document text its
\* text anchor points to, and its mention text
Entity(parts, mention) == [parts |-> parts, mention |-> mention]

RECURSIVE Join(_)
Join(parts) == IF parts = << >> THEN "" ELSE Head(parts) \o Join(Tail(parts))

\* lines 12-23
_extract_entity_text(entity) ==
    IF entity.parts = << >> THEN entity.mention ELSE Strip(Join(entity.parts))

\* line 43
all_cardholders == <<"MOHIT AGGARWAL", "HIMANI SOOD">>

\* a dict as the list of its (key, value) pairs in insertion order
DictKeys(d) == [n \in 1..Len(d) |-> d[n][1]]

DictHas(d, key) == \E n \in 1..Len(d) : d[n][1] = key

DictGet(d, key) == d[CHOOSE n \in 1..Len(d) : d[n][1] = key][2]

\* d[key] = value
DictSet(d, key, value) ==
    IF DictHas(d, key)
    THEN [n \in 1..Len(d) |-> IF d[n][1] = key THEN <<key, value>> ELSE d[n]]
    ELSE Append(d, <<key, value>>)

\* a cardholder label that lasts for the one item only
NameOfItemOnly(raw_text, current) ==
    LET hits == {n \in 1..Len(all_cardholders) : Contains(raw_text, all_cardholders[n])}
    IN  IF hits = {} THEN "Unknown"
        ELSE all_cardholders[CHOOSE n \in hits : \A k \in hits : n <= k]

\* lines 58-61: the first known name the text contains, else the label stays
NextCardholder(raw_text, current) ==
    LET hits == {n \in 1..Len(all_cardholders) : Contains(raw_text, all_cardholders[n])}
    IN  IF hits = {} THEN current
        ELSE all_cardholders[CHOOSE n \in hits : \A k \in hits : n <= k]

\* lines 65-69: the properties of the item, later ones of a type over earlier
RECURSIVE WithProperties(_, _)
WithProperties(transaction, properties) ==
    IF properties = << >> THEN transaction
    ELSE WithProperties(
             DictSet(transaction, Head(properties).type,
                     Str(_extract_entity_text(Head(properties).entity))),
             Tail(properties))

\* lines 63-69: the record of item i
ItemTransaction(i, table_item, cardholder) ==
    WithProperties(<<<<"item_id", Fin(i, 0)>>, <<"cardholder", Str(cardholder)>>>>,
                   table_item.properties)

\* lines 52-73: the loop over the items, with the label it ends on
RECURSIVE ParseItems(_)
ParseItems(table_items) ==
    IF table_items = << >> THEN [label |-> "Unknown", rows |-> << >>]
    ELSE LET before == ParseItems(SubSeq(table_items, 1, Len(table_items) - 1))
             item == table_items[Len(table_items)]
             name == NextCardholder(_extract_entity_text(item.entity), before.label)
         IN  [label |-> name,
              rows |-> Append(before.rows, ItemTransaction(Len(table_items) - 1, item, name))]

\* lines 47-73
_parse_table_items(table_items) == ParseItems(table_items).rows

\* the properties of a line item that is a withdrawal, and of a deposit
Withdrawal(date, description, amount) ==
    << [type |-> "table_item/transaction_withdrawal_date", entity |-> Entity(<<date>>, "")],
       [type |-> "table_item/transaction_withdrawal_description",
        entity |-> Entity(<<description>>, "")],
       [type |-> "table_item/transaction_withdrawal", entity |-> Entity(<<amount>>, "")] >>

Deposit(date, description, amount) ==
    << [type |-> "table_item/transaction_deposit_date", entity |-> Entity(<<date>>, "")],
       [type |-> "table_item/transaction_deposit_description",
        entity |-> Entity(<<description>>, "")],
       [type |-> "table_item/transaction_deposit", entity |-> Entity(<<amount>>, "")] >>

----------------------------------------------------------------------------
(* src/services/parser.py: _preprocess_transactions and run_parsing        *)

\* the text between the separators sep of s
RECURSIVE Split(_, _)
Split(s, sep) ==
    LET at == {i \in 1..Len(s) : Ch(s, i) = sep}
    IN  IF at = {} THEN <<s>>
        ELSE LET i == CHOOSE k \in at : \A n \in at : k <= n
             IN  <<SubSeq(s, 1, i - 1)>> \o Split(SubSeq(s, i + 1, Len(s)), sep)

\* str(n) of a natural number
RECURSIVE Digits(_)
Digits(n) == IF n < 10 THEN Ch(DigitChars, n + 1) ELSE Digits(n \div 10) \o Ch(DigitChars, (n % 10) + 1)

\* %m and %d of strftime
Pad2(n) == IF n < 10 THEN "0" \o Digits(n) ELSE Digits(n)

Leap(y) == (y % 4 = 0 /\ y % 100 # 0) \/ y % 400 = 0

DaysIn(m, y) ==
    IF m = 2 THEN (IF Leap(y) THEN 29 ELSE 28)
    ELSE IF m \in {4, 6, 9, 11} THEN 30 ELSE 31

\* %b and %B of strptime, which ignore case
MonthAbbr == <<"jan", "feb", "mar", "apr", "may", "jun", "jul", "aug", "sep", "oct", "nov", "dec">>
MonthName == <<"january", "february", "march", "april", "may", "june", "july", "august",
               "september", "october", "november", "december">>

NoDate == [ok |-> FALSE]

\* the date of the fields year, month, day, each a number, when there is one
DateOf(y, m, d) ==
    IF m \in 1..12 /\ d >= 1 /\ d <= DaysIn(m, y) THEN [ok |-> TRUE, y |-> y, m |-> m, d |-> d]
    ELSE NoDate

\* %m and %d read one or two digits, %Y reads four
IsShortNumber(s) == AllDigits(s) /\ Len(s) <= 2
IsYear(s) == AllDigits(s) /\ Len(s) = 4

MonthIndex(s, names) ==
    LET hits == {n \in 1..Len(names) : names[n] = Lower(s)}
    IN  IF hits = {} THEN 0 ELSE CHOOSE n \in hits : TRUE

\* %m<sep>%d<sep>%Y
ParseMDY(s, sep) ==
    LET f == Split(s, sep)
    IN  IF Len(f) = 3 /\ IsShortNumber(f[1]) /\ IsShortNumber(f[2]) /\ IsYear(f[3])
        THEN DateOf(DigitsValue(f[3]), DigitsValue(f[1]), DigitsValue(f[2]))
        ELSE NoDate

\* %Y<sep>%m<sep>%d
ParseYMD(s, sep) ==
    LET f == Split(s, sep)
    IN  IF Len(f) = 3 /\ IsYear(f[1]) /\ IsShortNumber(f[2]) /\ IsShortNumber(f[3])
        THEN DateOf(DigitsValue(f[1]), DigitsValue(f[2]), DigitsValue(f[3]))
        ELSE NoDate

\* %m<sep>%d with the year of today
ParseMD(s, sep, year) ==
    LET f == Split(s, sep)
    IN  IF Len(f) = 2 /\ IsShortNumber(f[1]) /\ IsShortNumber(f[2])
        THEN DateOf(year, DigitsValue(f[1]), DigitsValue(f[2]))
        ELSE NoDate

\* "%b %d" and "%B %d" with the year of today
ParseMonthDay(s, names, year) ==
    LET f == Split(s, " ")
    IN  IF Len(f) = 2 /\ MonthIndex(f[1], names) > 0 /\ IsShortNumber(f[2])
        THEN DateOf(year, MonthIndex(f[1], names), DigitsValue(f[2]))
        ELSE NoDate

\* "%b %d, %Y" and "%B %d, %Y"
ParseMonthDayYear(s, names) ==
    LET f == Split(s, " ")
    IN  IF Len(f) = 3 /\ MonthIndex(f[1], names) > 0 /\ Len(f[2]) >= 2
           /\ Ch(f[2], Len(f[2])) = "," /\ IsShortNumber(SubSeq(f[2], 1, Len(f[2]) - 1))
           /\ IsYear(f[3])
        THEN DateOf(DigitsValue(f[3]), MonthIndex(f[1], names),
                    DigitsValue(SubSeq(f[2], 1, Len(f[2]) - 1)))
        ELSE NoDate

\* "%d %b" and "%d %B" with the year of today
ParseDayMonth(s, names, year) ==
    LET f == Split(s, " ")
    IN  IF Len(f) = 2 /\ IsShortNumber(f[1]) /\ MonthIndex(f[2], names) > 0
        THEN DateOf(year, MonthIndex(f[2], names), DigitsValue(f[1]))
        ELSE NoDate

\* "%d %b %Y" and "%d %B %Y"
ParseDayMonthYear(s, names) ==
    LET f == Split(s, " ")
    IN  IF Len(f) = 3 /\ IsShortNumber(f[1]) /\ MonthIndex(f[2], names) > 0 /\ IsYear(f[3])
        THEN DateOf(DigitsValue(f[3]), MonthIndex(f[2], names), DigitsValue(f[1]))
        ELSE NoDate

\* lines 128-142 and 144-159: the formats in the order they are tried
DateFormats(s, year) ==
    << ParseMDY(s, "/"), ParseMDY(s, "-"), ParseYMD(s, "-"),
       ParseMonthDay(s, MonthAbbr, year), ParseMonthDay(s, MonthName, year),
       ParseMonthDayYear(s, MonthAbbr), ParseMonthDayYear(s, MonthName),
       ParseDayMonth(s, MonthAbbr, year), ParseDayMonth(s, MonthName, year),
       ParseDayMonthYear(s, MonthAbbr), ParseDayMonthYear(s, MonthName),
       ParseMD(s, "/", year), ParseMD(s, "-", year) >>

\* lines 161-167: pd.to_datetime(date_str, errors='coerce'); of the texts that
\* no format reads, the model's date texts hold YYYY/MM/DD, which it reads,
\* and texts that are no date
LastResort(s) == ParseYMD(s, "/")

\* strftime('%Y-%m-%d')
FormatDate(date) == Digits(date.y) \o "-" \o Pad2(date.m) \o "-" \o Pad2(date.d)

\* lines 120-169
standardize_date(date_cell, year) ==
    IF IsNA(date_cell) \/ date_cell = Str("") THEN None
    ELSE LET s == Strip(AsStr(date_cell))
             tries == DateFormats(s, year)
             hits == {n \in 1..Len(tries) : tries[n].ok}
         IN  IF hits # {} THEN Str(FormatDate(tries[CHOOSE n \in hits : \A k \in hits : n <= k]))
             ELSE IF LastResort(s).ok THEN Str(FormatDate(LastResort(s)))
             ELSE None

\* the keys of the records, in first-seen order
RECURSIVE UnionKeys(_)
UnionKeys(records) ==
    IF records = << >> THEN << >>
    ELSE LET before == UnionKeys(SubSeq(records, 1, Len(records) - 1))
             keys == DictKeys(records[Len(records)])
             new == SortedSeq({n \in 1..Len(keys) :
                                 ~(\E k \in 1..Len(before) : before[k] = keys[n])})
         IN  before \o [n \in 1..Len(new) |-> keys[new[n]]]

\* line 89: pd.DataFrame(transactions), NaN where a record lacks the key
DataFrame(records) ==
    Table(UnionKeys(records),
          [i \in 1..Len(records) |->
              [j \in 1..Len(UnionKeys(records)) |->
                  IF DictHas(records[i], UnionKeys(records)[j])
                  THEN DictGet(records[i], UnionKeys(records)[j])
                  ELSE NaN]])

\* df[name] = vals
Assign(df, name, vals) == IF HasCol(df, name) THEN SetCol(df, name, vals) ELSE AddCol(df, name, vals)

\* lines 36-41: the text of the first bank_name entity
BankName(document) ==
    IF document.bank_names = << >> THEN "Unknown"
    ELSE _extract_entity_text(document.bank_names[1])

\* lines 76-94; the None of line 87 is the empty frame here, run_parsing
\* passes over both alike (line 214)
_analyze_and_create_dataframe(document) ==
    LET records == _parse_table_items(document.table_items)
    IN  IF records = << >> THEN EmptyTable
        ELSE Assign(DataFrame(records), "bank_name",
                    [i \in 1..Len(records) |-> Str(BankName(document))])

\* lines 102-110: df.get(w).fillna(df.get(d)); df.get of an absent column is
\* None, which has no fillna and is no fill value
Coalesce(df, name, w, d) ==
    IF df.st = "raise" THEN df
    ELSE IF ~HasCol(df, w) \/ ~HasCol(df, d) THEN Raised(df)
    ELSE Assign(df, name,
                [i \in 1..Len(df.rows) |->
                    IF IsNA(CellAt(df, i, w)) THEN CellAt(df, i, d) ELSE CellAt(df, i, w)])

\* lines 102-110
CoalesceAll(df) ==
    Coalesce(
        Coalesce(
            Coalesce(df, "description", "table_item/transaction_withdrawal_description",
                     "table_item/transaction_deposit_description"),
            "amount", "table_item/transaction_withdrawal", "table_item/transaction_deposit"),
        "transaction_date", "table_item/transaction_withdrawal_date",
        "table_item/transaction_deposit_date")

EssentialColumns == <<"bank_name", "cardholder", "transaction_date", "description", "amount">>

\* a preprocessing that keeps every column
KeepAllColumns(df) == df

\* line 113
SelectColumns(df) ==
    TakeCols(df, [j \in 1..Len(EssentialColumns) |-> FirstCol(df, EssentialColumns[j])])

\* lines 116-117
DropMissingOrZeroAmount(df) ==
    KeepRows(df, {i \in 1..Len(df.rows) :
                    /\ ~IsNA(CellAt(df, i, "amount"))
                    /\ CellAt(df, i, "amount") \notin {Str("$0.00"), Str("+$0.00")}})

\* line 172
StandardizeDates(df, year) ==
    SetCol(df, "transaction_date",
           [i \in 1..Len(df.rows) |-> standardize_date(CellAt(df, i, "transaction_date"), year)])

\* line 175
DropMissingDate(df) ==
    KeepRows(df, {i \in 1..Len(df.rows) : ~IsNA(CellAt(df, i, "transaction_date"))})

\* lines 97-177
_preprocess_transactions(df, year) ==
    LET coalesced == CoalesceAll(df)
    IN  IF coalesced.st = "raise" THEN coalesced
        ELSE DropMissingDate(StandardizeDates(DropMissingOrZeroAmount(SelectColumns(coalesced)), year))

\* line 225: final_df.to_csv(CSV_PATH, index=False); a missing value is written
\* as the empty text
ToCsv(df) ==
    [exists |-> TRUE, header |-> df.cols,
     rows |-> [i \in 1..Len(df.rows) |->
                  [j \in 1..Len(df.cols) |->
                      IF IsNA(df.rows[i][j]) THEN "" ELSE AsStr(df.rows[i][j])]]]

NoFile == [exists |-> FALSE]

LineItem(text, properties) == [entity |-> Entity(<<text>>, ""), properties |-> properties]

Document(bank_names, table_items) == [bank_names |-> bank_names, table_items |-> table_items]

\* the documents the document-understanding service can return
Documents ==
    { Document(<<Entity(<<"Chase ">>, "")>>,
               << LineItem("MOHIT AGGARWAL", << >>),
                  LineItem("06/25 COFFEE $4.50", Withdrawal("06/25", "COFFEE", "$4.50")),
                  LineItem("06/26 REFUND $10.00", Deposit("06/26/2024", "REFUND", "$10.00")) >>),
      Document(<< >>,
               << LineItem("ZERO", Withdrawal("06/27/2024", "ZERO", "$0.00")),
                  LineItem("ZERO CREDIT", Deposit("2024-06-28", "ZERO CREDIT", "+$0.00")),
                  LineItem("PLAIN ZERO", Withdrawal("Jun 29", "PLAIN ZERO", "0.00")),
                  LineItem("NO CENTS", Deposit("06/30", "NO CENTS", "$0")),
                  LineItem("MINUS ZERO", Withdrawal("07/01", "MINUS ZERO", "-$0.00")) >>),
      Document(<<Entity(<< >>, "Amex")>>,
               << LineItem("HIMANI SOOD BAD DATE", Withdrawal("n/a", "BAD DATE", "$5.00")),
                  LineItem("NO DATE", Deposit("", "NO DATE", "$6.00")),
                  LineItem("LEAP", Withdrawal("02/29", "LEAP", "$7.00")),
                  LineItem("SLASHES", Deposit("2024/07/02", "SLASHES", "$8.00")) >>),
      Document(<< >>, << LineItem("ONLY DEBITS", Withdrawal("07/03", "ONLY DEBITS", "$9.00")) >>),
      Document(<< >>, << LineItem("ONLY CREDITS", Deposit("07/04", "ONLY CREDITS", "$9.50")) >>),
      Document(<< >>, << LineItem("MOHIT AGGARWAL", << >>) >>),
      Document(<< >>, << >>) }

\* client.process_document: a document, or an error of the service
ServiceResponses == {[st |-> "error"]} \cup {[st |-> "ok", document |-> d] : d \in Documents}

\* pd.Timestamp.now().year
CurrentYears == {2024, 2025}

\* line 213 for each document the service can return
FrameOf == [d \in Documents |-> _analyze_and_create_dataframe(d)]

\* lines 102-110 on that frame
CoalescedOf == [d \in Documents |-> CoalesceAll(FrameOf[d])]

\* line 215 on that frame, in each year
PreprocessedOf ==
    [d \in Documents |-> [year \in CurrentYears |-> _preprocess_transactions(FrameOf[d], year)]]

\* no document was asked for yet
NoResult == [st |-> "none"]

\* lines 183-195: the entries of the statements folder, as listed
ParsingInit ==
    /\ file_names \in Listings
    /\ file_i = 0
    /\ rp_pc = "loop"
    /\ all_cleaned_dfs = << >>
    /\ data_csv = NoFile
    /\ result = NoResult
    /\ csv_saved = FALSE

\* lines 204-219 for one PDF: an error of the service and an exception of
\* _preprocess_transactions are raised on, a document without transactions is
\* passed over, the cleaned frame of another one is kept
FileOutcome(response, year) ==
    IF response.st = "error" THEN [st |-> "raise"]
    ELSE LET df == FrameOf[response.document]
             cleaned_df == PreprocessedOf[response.document][year]
         IN  IF IsEmptyTable(df) THEN [st |-> "skip"]
             ELSE IF cleaned_df.st = "raise" THEN [st |-> "raise"]
             ELSE [st |-> "keep", cleaned_df |-> cleaned_df]

\* lines 197-219: the next entry; nothing here is inside a try, so an error
\* of the service or of _preprocess_transactions ends run_parsing
ProcessFile ==
    /\ rp_pc = "loop"
    /\ file_i < Len(file_names)
    /\ file_i' = file_i + 1
    /\ IF ~EndsWith(Lower(file_names[file_i + 1]), ".pdf")
       THEN UNCHANGED <<rp_pc, all_cleaned_dfs, result>>
       ELSE \E response \in ServiceResponses, year \in CurrentYears :
               LET outcome == FileOutcome(response, year)
               IN  /\ result' = response
                   /\ rp_pc' = IF outcome.st = "raise" THEN "raise" ELSE rp_pc
                   /\ all_cleaned_dfs' = IF outcome.st = "keep"
                                         THEN Append(all_cleaned_dfs, outcome.cleaned_df)
                                         ELSE all_cleaned_dfs
    /\ UNCHANGED <<file_names, data_csv, csv_saved>>

\* lines 221-233: data.csv is written when a frame was kept, else left alone
FinishParsing ==
    /\ rp_pc = "loop"
    /\ file_i = Len(file_names)
    /\ rp_pc' = "done"
    /\ data_csv' = IF all_cleaned_dfs # << >> THEN ToCsv(Combine(all_cleaned_dfs)) ELSE data_csv
    /\ csv_saved' = (all_cleaned_dfs # << >>)
    /\ UNCHANGED <<file_names, file_i, all_cleaned_dfs, result>>

\* categorizer_task.py lines 66-82: the agent was asked to append a final
\* column named Category to the text it was given
WithCategory(csv) ==
    IF csv.header # << >> /\ csv.header[Len(csv.header)] = "Category" THEN csv
    ELSE [exists |-> TRUE, header |-> Append(csv.header, "Category"),
          rows |-> [i \in 1..Len(csv.rows) |-> Append(csv.rows[i], "Uncategorized")]]

\* app.py line 33 and st_app.py lines 76-82, after run_parsing returned:
\* app.main calls run_categorization, which returns at once when there is no
\* data.csv (lines 38-43); the Streamlit flow calls it when data.csv exists
\* and is not empty, and to_csv writes a header at least.  The categorization
\* reads data.csv and writes the agent's answer over it when it got one.
Categorize ==
    /\ rp_pc = "done"
    /\ IF data_csv.exists
       THEN /\ rp_pc' = "categorized"
            /\ data_csv' \in {data_csv, WithCategory(data_csv)}
       ELSE /\ rp_pc' = "no data"
            /\ UNCHANGED data_csv
    /\ UNCHANGED <<file_names, file_i, all_cleaned_dfs, result, csv_saved>>

\* the next processing run: app.main is started again, or the Process button
\* of st_app.py (line 51) is pressed again; data.csv is what the run before
\* left (st_app.py lines 65-66 remove the old statements, nothing removes
\* data.csv)
NextRun ==
    /\ rp_pc \in {"categorized", "no data", "raise"}
    /\ file_names' \in Listings
    /\ file_i' = 0
    /\ rp_pc' = "loop"
    /\ all_cleaned_dfs' = << >>
    /\ result' = NoResult
    /\ csv_saved' = FALSE
    /\ UNCHANGED data_csv

\* lines 197-219 over a whole listing: the frames kept, or the exception
RECURSIVE ParseFiles(_, _, _, _)
ParseFiles(names, answers, year, kept) ==
    IF names = << >> THEN [st |-> "ok", all_cleaned_dfs |-> kept]
    ELSE IF ~EndsWith(Lower(Head(names)), ".pdf")
    THEN ParseFiles(Tail(names), answers, year, kept)
    ELSE LET outcome == FileOutcome(answers[Head(names)], year)
         IN  IF outcome.st = "raise" THEN [st |-> "raise"]
             ELSE ParseFiles(Tail(names), answers, year,
                             IF outcome.st = "keep" THEN Append(kept, outcome.cleaned_df)
                             ELSE kept)

\* lines 221-233, with no data.csv before the run
SaveCsv(parsed) ==
    IF parsed.st = "raise" THEN [st |-> "raise"]
    ELSE [st |-> "ok",
          data_csv |-> IF parsed.all_cleaned_dfs # << >>
                       THEN ToCsv(Combine(parsed.all_cleaned_dfs)) ELSE NoFile]

\* lines 181-233: run_parsing over the listing
RunParsing(names, answers, year) == SaveCsv(ParseFiles(names, answers, year, << >>))

\* the PDF names of a listing
PdfNames(names) == {names[n] : n \in {k \in 1..Len(names) : EndsWith(Lower(names[k]), ".pdf")}}

StatementFiles == {"A.PDF", "b.pdf"}

\* the orders in which os.listdir can list a folder that holds these files
ListingOrders == {names \in Listings : PdfNames(names) = StatementFiles}

MaxRuns == 2

\* a folder of statement files and what the service answers for each
OrderInit ==
    /\ statements \in [StatementFiles -> ServiceResponses]
    /\ current_year \in CurrentYears
    /\ runs = << >>

\* one more run of run_parsing over the same files, listed in some order
RunOverListing ==
    /\ Len(runs) < MaxRuns
    /\ \E names \in ListingOrders :
          runs' = Append(runs, [file_names |-> names,
                                output |-> RunParsing(names, statements, current_year)])
    /\ UNCHANGED <<statements, current_year>>

MaxItems == 3
MaxDocs == 2

\* the table_item entities the document-understanding service can return
ItemInputs ==
    { [entity |-> Entity(<<"MOHIT AGGARWAL">>, ""), properties |-> << >>],
      [entity |-> Entity(<< >>, "HIMANI SOOD card 1234"), properties |-> << >>],
      [entity |-> Entity(<<"06/25 COFFEE ", "$4.50">>, ""),
       properties |-> Withdrawal("06/25", "COFFEE", "$4.50")],
      [entity |-> Entity(<<"MOHIT AGG", "ARWAL / HIMANI SOOD ">>, ""), properties |-> << >>],
      [entity |-> Entity(<< >>, ""), properties |-> << >>],
      [entity |-> Entity(<<"mohit aggarwal 06/26 REFUND">>, ""),
       properties |-> Deposit("06/26", "REFUND", "$10.00")] }

\* lines 52-53 of the call for the first document
ItemsInit ==
    /\ entities = << >>
    /\ current_cardholder = "Unknown"
    /\ transactions = << >>
    /\ doc_n = 1
    /\ prev_cardholder = "Unknown"

\* lines 55-71: the loop body for the next item of the document
ParseItem ==
    /\ Len(entities) < MaxItems
    /\ \E table_item \in ItemInputs :
          LET name == NextCardholder(_extract_entity_text(table_item.entity), current_cardholder)
          IN  /\ entities' = Append(entities, table_item)
              /\ current_cardholder' = name
              /\ transactions' = Append(transactions,
                                        ItemTransaction(Len(entities), table_item, name))
    /\ UNCHANGED <<doc_n, prev_cardholder>>

\* line 73 and lines 52-53 of the call for the next document
NextDocument ==
    /\ doc_n < MaxDocs
    /\ doc_n' = doc_n + 1
    /\ prev_cardholder' = current_cardholder
    /\ entities' = << >>
    /\ current_cardholder' = "Unknown"
    /\ transactions' = << >>

----------------------------------------------------------------------------
(* Specifications                                                          *)

NumIdle == cell = None /\ ser = None /\ num_pc = NumStages
ColIdle == labels = << >> /\ cols = << >> /\ prev_cols = << >> /\ norm_n = MaxNormalize
CleanIdle == frame = EmptyTable /\ hist = << >> /\ clean_pc = CleanStages
ExtractIdle ==
    /\ strategies = [camelot |-> [import |-> "missing"], tabula |-> [import |-> "missing"],
                     plumber |-> [import |-> "missing"]]
    /\ ex_pc = ExtractStages
    /\ raw_candidates = Returns(<< >>)
FolderIdle ==
    /\ listing = << >> /\ pdf_files = << >> /\ pdf_i = 0 /\ raw_tables = << >>
    /\ tbl_i = 0 /\ sources = << >>
    /\ pf_pc = "idle" /\ seen = 0 /\ all_cleaned = << >> /\ all_columns = << >>
    /\ combined = EmptyTable /\ ledger = EmptyTable
    /\ files = {} /\ grouped = << >> /\ skipped = << >>

ItemsIdle ==
    /\ entities = << >> /\ current_cardholder = "Unknown" /\ transactions = << >>
    /\ doc_n = MaxDocs /\ prev_cardholder = "Unknown"

ParsingIdle ==
    /\ file_names = << >> /\ file_i = 0 /\ rp_pc = "idle" /\ all_cleaned_dfs = << >>
    /\ data_csv = NoFile /\ result = NoResult /\ csv_saved = FALSE

OrderIdle ==
    /\ statements = << >> /\ current_year = 0 /\ runs = << >>

\* the numeric parser alone
InitNum == NumInit /\ ColIdle /\ CleanIdle /\ ExtractIdle /\ FolderIdle /\ ItemsIdle /\ ParsingIdle /\ OrderIdle
NextNum == NumStep /\ UNCHANGED <<colVars, cleanVars, extractVars, folderVars, itemVars, parseVars, orderVars>>
SpecNum == InitNum /\ [][NextNum]_vars

\* the column normalizer alone
InitCols == ColInit /\ NumIdle /\ CleanIdle /\ ExtractIdle /\ FolderIdle /\ ItemsIdle /\ ParsingIdle /\ OrderIdle
NextCols == NormalizeCols /\ UNCHANGED <<numVars, cleanVars, extractVars, folderVars, itemVars, parseVars, orderVars>>
SpecCols == InitCols /\ [][NextCols]_vars

\* the cleaner of one raw table alone
InitClean == CleanInit /\ NumIdle /\ ColIdle /\ ExtractIdle /\ FolderIdle /\ ItemsIdle /\ ParsingIdle /\ OrderIdle
NextClean == CleanStep /\ UNCHANGED <<numVars, colVars, extractVars, folderVars, itemVars, parseVars, orderVars>>
SpecClean == InitClean /\ [][NextClean]_vars

\* the extraction of one PDF alone
InitExtract == ExtractInit /\ NumIdle /\ ColIdle /\ CleanIdle /\ FolderIdle /\ ItemsIdle /\ ParsingIdle /\ OrderIdle
NextExtract == ExtractStep /\ UNCHANGED <<numVars, colVars, cleanVars, folderVars, itemVars, parseVars, orderVars>>
SpecExtract == InitExtract /\ [][NextExtract]_vars

\* process_folder
Init == FolderInit /\ NumIdle /\ ColIdle /\ CleanIdle /\ ExtractIdle /\ ItemsIdle /\ ParsingIdle /\ OrderIdle
Next ==
    \/ ListPdfs /\ UNCHANGED <<numVars, colVars, cleanVars, extractVars, itemVars, parseVars, orderVars>>
    \/ ExtractTables /\ UNCHANGED <<numVars, colVars, cleanVars, extractVars, itemVars, parseVars, orderVars>>
    \/ CleanCandidate /\ UNCHANGED <<numVars, colVars, cleanVars, extractVars, itemVars, parseVars, orderVars>>
    \/ ReturnEmpty /\ UNCHANGED <<numVars, colVars, cleanVars, extractVars, itemVars, parseVars, orderVars>>
    \/ CombineAndSave /\ UNCHANGED <<numVars, colVars, cleanVars, extractVars, itemVars, parseVars, orderVars>>
Spec == Init /\ [][Next]_vars

\* _parse_table_items, document after document
InitItems == ItemsInit /\ NumIdle /\ ColIdle /\ CleanIdle /\ ExtractIdle /\ FolderIdle /\ ParsingIdle /\ OrderIdle
NextItems ==
    \/ ParseItem /\ UNCHANGED <<numVars, colVars, cleanVars, extractVars, folderVars, parseVars, orderVars>>
    \/ NextDocument /\ UNCHANGED <<numVars, colVars, cleanVars, extractVars, folderVars, parseVars, orderVars>>
SpecItems == InitItems /\ [][NextItems]_vars

\* run_parsing and the categorization after it, run after run
InitParsing == ParsingInit /\ NumIdle /\ ColIdle /\ CleanIdle /\ ExtractIdle /\ FolderIdle /\ ItemsIdle /\ OrderIdle
NextParsing ==
    \/ ProcessFile /\ UNCHANGED <<numVars, colVars, cleanVars, extractVars, folderVars, itemVars, orderVars>>
    \/ FinishParsing /\ UNCHANGED <<numVars, colVars, cleanVars, extractVars, folderVars, itemVars, orderVars>>
    \/ Categorize /\ UNCHANGED <<numVars, colVars, cleanVars, extractVars, folderVars, itemVars, orderVars>>
    \/ NextRun /\ UNCHANGED <<numVars, colVars, cleanVars, extractVars, folderVars, itemVars, orderVars>>
SpecParsing == InitParsing /\ [][NextParsing]_vars

\* run_parsing over one set of statement files, listed in one order and another
InitOrder ==
    OrderInit /\ NumIdle /\ ColIdle /\ CleanIdle /\ ExtractIdle /\ FolderIdle /\ ItemsIdle /\ ParsingIdle
NextOrder ==
    RunOverListing /\ UNCHANGED <<numVars, colVars, cleanVars, extractVars, folderVars, itemVars, parseVars>>
SpecOrder == InitOrder /\ [][NextOrder]_vars

----------------------------------------------------------------------------
(* Claims on the numeric parser (SpecNum)                                  *)

\* C1: the parser maps the cell texts "$1,234.56", "(1,234.56)", "~1234.56"
\* (unicode minus) and "1 234.56" (space as thousands separator) to 1234.56,
\* -1234.56, -1234.56 and 1234.56.  Fails: a space inside the number survives
\* the clean-up, the text is not numeric and the cell becomes 0.0.
C1_FourFormsParse ==
    num_pc = NumStages =>
        /\ (cell = Str("$1,234.56") => ser = Fin(123456, 2))
        /\ (cell = Str("(1,234.56)") => ser = Fin(0 - 123456, 2))
        /\ (cell = Str("~1234.56") => ser = Fin(0 - 123456, 2))
        /\ (cell = Str("1 234.56") => ser = Fin(123456, 2))

----------------------------------------------------------------------------
(* Claims on the column normalizer (SpecCols)                              *)

\* the keyword groups in their order of precedence
C4_Groups ==
    << [canon |-> "date", kws |-> {"post date", "transaction date", "date"}],
       [canon |-> "description", kws |-> {"description", "merchant", "details", "transaction"}],
       [canon |-> "amount", kws |-> {"amount", "amt", "value"}],
       [canon |-> "debit", kws |-> {"debit", "withdrawal", "charge", "dr"}],
       [canon |-> "credit", kws |-> {"credit", "payment", "deposit", "cr"}],
       [canon |-> "cardholder",
        kws |-> {"cardholder", "card holder", "member", "employee", "user"}],
       [canon |-> "card_last4",
        kws |-> {"last4", "last 4", "card no", "card #", "card ending"}] >>

C4_Matching(l) == {g \in 1..Len(C4_Groups) : AnyIn(l, C4_Groups[g].kws)}

C4_First(G) == CHOOSE g \in G : \A h \in G : g <= h

\* C4: every raw label is lower-cased and whitespace-collapsed and mapped to the
\* canonical column of the first keyword group (date, description, amount,
\* debit, credit, cardholder, card_last4) with a keyword contained in it;
\* "transaction date" maps to date; a label of no group is kept as a column.
C4_FirstGroupWins ==
    norm_n = 1 =>
        /\ Len(cols) = Len(labels)
        /\ \A i \in 1..Len(labels) :
              LET l == Lower(Strip(CollapseWs(labels[i])))
                  G == C4_Matching(l)
              IN  /\ cols[i] = (IF G = {} THEN l ELSE C4_Groups[C4_First(G)].canon)
                  /\ (labels[i] = "Transaction Date" => cols[i] = "date")

C4_Witness ==
    /\ norm_n = 1
    /\ labels = <<"Transaction Date", "Balance">>
    /\ cols = <<"date", "balance">>
    /\ Cardinality(C4_Matching("transaction date")) = 2

\* C5: normalizing a header of canonical names changes no name, and a second
\* normalization of any header changes nothing the first one produced.
C5_Idempotent ==
    /\ (norm_n >= 1 /\ (\A i \in 1..Len(labels) : labels[i] \in Canonical) => cols = labels)
    /\ (norm_n >= 2 => cols = prev_cols)

C5_Witness ==
    /\ norm_n = 2
    /\ labels = <<"card_last4", "Charge Amount">>
    /\ cols = <<"card_last4", "amount">>
    /\ prev_cols = cols

----------------------------------------------------------------------------
(* Claims on the row cleaner (SpecClean)                                   *)

\* what a debit or credit cell contributes: its parsed value, and 0 for a
\* missing column or an empty or unparseable cell
C2_Contribution(t, i, col) ==
    IF ~HasCol(t, col) THEN Zero
    ELSE LET v == ToNumeric(RunNumStages(7, CellAt(t, i, col)))
         IN  IF IsNA(v) THEN Zero ELSE v

\* C2: in a table with no column mapped to amount, every row's amount is the
\* parsed credit minus the parsed debit of that row, a missing column or an
\* empty or unparseable cell counting as 0.
C2_CreditMinusDebit ==
    (clean_pc >= StAmount /\ frame.st = "ok" /\ ~HasCol(hist[StAmount], "amount")) =>
        \A i \in 1..Len(frame.rows) :
            CellAt(frame, i, "amount")
                = FSub(C2_Contribution(frame, i, "credit"), C2_Contribution(frame, i, "debit"))

C2_Witness ==
    /\ clean_pc = CleanStages
    /\ frame.st = "ok"
    /\ ~HasCol(hist[StAmount], "amount")
    /\ HasCol(frame, "debit") /\ HasCol(frame, "credit")
    /\ Len(frame.rows) = 2
    /\ CellAt(frame, 1, "debit") = Str("$4.50") /\ CellAt(frame, 1, "amount") = Fin(0 - 45, 1)
    /\ CellAt(frame, 2, "debit") = Str("abc") /\ CellAt(frame, 2, "credit") = None
    /\ CellAt(frame, 2, "amount") = Zero

\* C3: with a direct amount column, every row whose amount cell is empty or not
\* numeric after the clean-up is absent from the cleaned table.  Fails: the
\* parser turns such a cell into 0.0 and the row stays.
C3_UnusableAmountDropped ==
    (clean_pc = CleanStages /\ frame.st = "ok" /\ HasCol(hist[StAmount], "amount")) =>
        \A i \in 1..Len(hist[StAmount].rows) :
            IsNA(ToNumeric(RunNumStages(7, CellAt(hist[StAmount], i, "amount")))) =>
                \A k \in 1..Len(frame.rows) : frame.org[k] # hist[StAmount].org[i]

\* the rows of t that are kept in the current frame
C8_Kept(t) == {i \in 1..Len(t.rows) : \E k \in 1..Len(frame.rows) : frame.org[k] = t.org[i]}

\* row i of t on the first column of each name
C8_KeyOnKeptCols(t, i) == RowKey(DropDuplicateCols(t).rows[i])

\* C8 as stated: of the rows entering deduplication, those equal in every cell
\* leave exactly one row, so two rows that differ in a cell both stay.  Fails
\* when a column name is repeated: the later column is dropped first, and rows
\* that differ only there are merged.
C8_ExactRowsOnly ==
    (clean_pc >= StDedup /\ frame.st = "ok") =>
        \A i \in 1..Len(hist[StDedup].rows) :
            Cardinality({k \in C8_Kept(hist[StDedup]) :
                RowKey(hist[StDedup].rows[k]) = RowKey(hist[StDedup].rows[i])}) = 1

\* C8 amended: rows are compared on the columns that duplicate-column removal
\* keeps (the first of each name): of the rows equal on all of them exactly one
\* stays, and two rows that differ on one of them both stay.
C8_ExactOnKeptColumns ==
    (clean_pc >= StDedup /\ frame.st = "ok") =>
        \A i \in 1..Len(hist[StDedup].rows) :
            Cardinality({k \in C8_Kept(hist[StDedup]) :
                C8_KeyOnKeptCols(hist[StDedup], k) = C8_KeyOnKeptCols(hist[StDedup], i)}) = 1

C8_Witness ==
    /\ clean_pc = StDedup
    /\ frame.st = "ok"
    /\ Len(hist[StDedup].rows) = 2
    /\ Len(hist[StDedup].cols) > Len(frame.cols)
    /\ RowKey(hist[StDedup].rows[1]) # RowKey(hist[StDedup].rows[2])
    /\ Len(frame.rows) = 1

\* C9: the table [["Date","Desc","Debit","Credit"], ["01/02/2024","COFFEE
\* SHOP","$4.50",""], ["01/03/2024","REFUND","","$10.00"]] cleans to two rows
\* (2024-01-02, COFFEE SHOP, -4.5) and (2024-01-03, REFUND, 10.0) under the
\* columns date, description, amount.  Fails: "desc" contains no keyword of the
\* description group and the column stays "desc".
C9_Scenario ==
    (/\ clean_pc = CleanStages
     /\ hist[1] = PositionalTable(<<"Date", "Desc", "Debit", "Credit">>,
                                  << <<"01/02/2024", "COFFEE SHOP", "$4.50", "">>,
                                     <<"01/03/2024", "REFUND", "", "$10.00">> >>))
    => /\ frame.st = "ok"
       /\ Len(frame.rows) = 2
       /\ HasCol(frame, "date") /\ HasCol(frame, "description") /\ HasCol(frame, "amount")
       /\ CellAt(frame, 1, "date") = Str("2024-01-02")
       /\ CellAt(frame, 1, "description") = Str("COFFEE SHOP")
       /\ CellAt(frame, 1, "amount") = Fin(0 - 45, 1)
       /\ CellAt(frame, 2, "date") = Str("2024-01-03")
       /\ CellAt(frame, 2, "description") = Str("REFUND")
       /\ CellAt(frame, 2, "amount") = Fin(10, 0)

----------------------------------------------------------------------------
(* Claims on process_folder (Spec)                                         *)

\* C6: every row of the sanitized ledger has a non-null, finite amount, whatever
\* the raw cell texts were.  Fails: the text "inf" parses to the float inf,
\* which is not missing, and the row stays.
C6_AmountFinite ==
    pf_pc = "done" =>
        \A i \in 1..Len(ledger.rows) : IsFinite(CellAt(ledger, i, "amount"))

\* C7: when the ledger has a description column, every row of the sanitized
\* ledger has a non-null, non-empty description.  Fails: a row padded with NaN
\* in the description column passes the filter, whose test is on str(NaN).
C7_DescriptionNonEmpty ==
    (pf_pc = "done" /\ HasCol(ledger, "description")) =>
        \A i \in 1..Len(ledger.rows) :
            /\ CellAt(ledger, i, "description").t = "str"
            /\ CellAt(ledger, i, "description").s # ""

RECURSIVE C10_TotalRows(_)
C10_TotalRows(dfs) ==
    IF dfs = << >> THEN 0 ELSE Len(Head(dfs).rows) + C10_TotalRows(Tail(dfs))

\* C10: in the combined frame every row keeps, column by column, the value it
\* had in its cleaned table, and holds a null exactly in the union columns
\* that table lacks; tables with the columns [date, description, amount] and
\* [date, description, amount, cardholder] combine to the latter columns.
C10_ReindexKeepsValues ==
    pf_pc = "done" =>
        /\ \A t \in 1..Len(all_cleaned) :
              \A j \in 1..Len(all_cleaned[t].cols) : HasCol(combined, all_cleaned[t].cols[j])
        /\ \A i \in 1..Len(combined.rows) :
              LET src == all_cleaned[combined.org[i][1]]
                  r == combined.org[i][2]
              IN  \A j \in 1..Len(combined.cols) :
                      IF HasCol(src, combined.cols[j])
                      THEN combined.rows[i][j] = CellAt(src, r, combined.cols[j])
                      ELSE combined.rows[i][j] = NaN
        /\ Len(combined.rows) = C10_TotalRows(all_cleaned)
        /\ (Len(all_cleaned) = 2
            /\ all_cleaned[1].cols = <<"date", "description", "amount">>
            /\ all_cleaned[2].cols = <<"date", "description", "amount", "cardholder">>)
           => /\ combined.cols = <<"date", "description", "amount", "cardholder">>
              /\ \A i \in 1..Len(all_cleaned[1].rows) : CellAt(combined, i, "cardholder") = NaN

C10_Witness ==
    /\ pf_pc = "done"
    /\ Len(all_cleaned) = 2
    /\ all_cleaned[1].cols = <<"date", "description", "amount">>
    /\ all_cleaned[2].cols = <<"date", "description", "amount", "cardholder">>
    /\ combined.cols = <<"date", "description", "amount", "cardholder">>
    /\ CellAt(combined, 1, "cardholder") = NaN
    /\ CellAt(combined, Len(combined.rows), "cardholder") # NaN
    /\ CellAt(combined, 1, "description") = CellAt(all_cleaned[1], 1, "description")

\* C11: the columns of the combined ledger are, as a set, the union of the
\* columns of the cleaned tables, and that set is the same for every order in
\* which the cleaned tables are combined; the column order is the first-seen
\* order.
C11_ColumnSetIsUnion ==
    pf_pc = "done" =>
        LET union == UNION {ColSet(all_cleaned[t]) : t \in 1..Len(all_cleaned)}
        IN  /\ ColSet(combined) = union
            /\ ColSet(ledger) = union
            /\ combined.cols = all_columns
            /\ \A j, k \in 1..Len(combined.cols) : combined.cols[j] = combined.cols[k] => j = k
            /\ \A p \in Permutations(1..Len(all_cleaned)) :
                  ColSet(Combine([t \in 1..Len(all_cleaned) |-> all_cleaned[p[t]]])) = union

C11_Witness ==
    /\ pf_pc = "done"
    /\ Len(all_cleaned) = 2
    /\ ColSet(all_cleaned[1]) # ColSet(all_cleaned[2])
    /\ Combine(<<all_cleaned[2], all_cleaned[1]>>).cols # combined.cols
    /\ ColSet(Combine(<<all_cleaned[2], all_cleaned[1]>>)) = ColSet(combined)

\* the places <<table, row>> of the rows of the tables dfs, table after table
RECURSIVE C12_Places(_)
C12_Places(dfs) ==
    IF dfs = << >> THEN << >>
    ELSE C12_Places(SubSeq(dfs, 1, Len(dfs) - 1))
         \o [i \in 1..Len(dfs[Len(dfs)].rows) |-> <<Len(dfs), i>>]

\* C12: before the final sanitization the combined frame holds the rows of the
\* kept cleaned tables, table after table in the order (sorted PDF path,
\* candidate index), every table's rows in their order, no row added, removed
\* or merged: equal rows of two tables are all there.
C12_RowwiseConcatenation ==
    /\ \A t, u \in 1..Len(sources) :
          t < u => \/ StrLess(sources[t][1], sources[u][1])
                   \/ sources[t][1] = sources[u][1] /\ sources[t][2] < sources[u][2]
    /\ Len(sources) = Len(all_cleaned)
    /\ \A t \in 1..Len(all_cleaned) : ~IsEmptyTable(all_cleaned[t])
    /\ pf_pc = "done" =>
          /\ combined.org = C12_Places(all_cleaned)
          /\ \A i \in 1..Len(combined.rows) :
                LET src == all_cleaned[combined.org[i][1]]
                IN  \A c \in ColSet(src) :
                        CellAt(combined, i, c) = CellAt(src, combined.org[i][2], c)

C12_Witness ==
    /\ pf_pc = "done"
    /\ Len(all_cleaned) = 2
    /\ sources[1][1] = sources[2][1]
    /\ all_cleaned[1].cols = all_cleaned[2].cols
    /\ all_cleaned[1].rows = all_cleaned[2].rows
    /\ Len(all_cleaned[1].rows) >= 2
    /\ Len(combined.rows) = 2 * Len(all_cleaned[1].rows)
    /\ combined.rows[1] = combined.rows[1 + Len(all_cleaned[1].rows)]

\* C13: when process_folder has ended on a folder with no PDF, or on a folder
\* of which every PDF was handed to the extractor and no candidate table
\* cleaned to a non-empty table, it has returned the empty mapping, written no
\* file and raised no exception.  Fails through the failure of C16: a PDF
\* whose extraction raises ends process_folder with the exception.
C13_NothingToCombine ==
    (/\ pf_pc \in {"empty", "done", "raise"}
     /\ pdf_i = Len(pdf_files)
     /\ all_cleaned = << >>)
    => (pf_pc = "empty" /\ files = {} /\ grouped = << >>)

\* C16: a failure while extracting one document is caught: process_folder
\* goes on with the next document and writes the rows of the others.  Fails:
\* extract_all_tables is called outside any try, so what it raises ends the
\* run with documents left and no combined file written.
C16_ExtractionFailureCaught == pf_pc # "raise"

----------------------------------------------------------------------------
(* Claims on the structural pruning (SpecClean) and the extraction         *)
(* (SpecExtract)                                                           *)

\* a raw table all of whose rows are blank rows or rows of dashes
C14_OnlyBlankAndSeparators(df) ==
    /\ Len(df.rows) > 0
    /\ \A i \in 1..Len(df.rows) :
          \/ \A j \in 1..Len(df.cols) : df.rows[i][j] = Str("")
          \/ \A j \in 1..Len(df.cols) : df.rows[i][j] = Str("-")

\* C14 as stated: a table of blank rows and separator rows only is dropped
\* entirely, and its rows are pruned before column normalization runs: the
\* frame that _normalize_cols receives has no row left.  Fails: line 273
\* normalizes the columns before lines 276-282 prune.
C14_PrunedBeforeNormalization ==
    (hist # << >> /\ C14_OnlyBlankAndSeparators(hist[1])) =>
        /\ clean_pc >= StNormalize => Len(hist[StNormalize].rows) = 0
        /\ clean_pc = CleanStages => IsEmptyTable(frame)

\* C14 amended: a table of blank rows and separator rows only is cleaned to an
\* empty frame without raising (so process_folder skips it); its rows are all
\* still there after column normalization and are gone after the separator
\* statement, before the description, amount and date statements.
C14_PrunedAfterNormalization ==
    (hist # << >> /\ C14_OnlyBlankAndSeparators(hist[1])) =>
        /\ frame.st = "ok"
        /\ clean_pc >= StNormalize => Len(hist[StNormalize + 1].rows) = Len(hist[1].rows)
        /\ clean_pc >= StSeparators => Len(hist[StSeparators + 1].rows) = 0
        /\ clean_pc = CleanStages => (IsEmptyTable(frame) /\ ~Keeps(frame))

C14_Witness ==
    /\ clean_pc = CleanStages
    /\ hist[1].cols = <<"0", "1", "2", "3">>
    /\ hist[1].rows = <<RowOf(<<"", "", "", "">>), RowOf(<<"-", "-", "-", "-">>),
                        RowOf(<<"-", "-", "-", "-">>)>>
    /\ Len(hist[StSeparators].rows) = 3
    /\ IsEmptyTable(frame)

\* the candidates of the strategies that did not raise, in the order of the
\* strategies
C15_Succeeded(o) ==
    (IF o.camelot.import = "ok"
     THEN Found(o.camelot.lattice, "camelot_lattice") \o Found(o.camelot.stream, "camelot_stream")
     ELSE << >>)
    \o (IF o.tabula.import = "ok"
        THEN Found(o.tabula.lattice, "tabula_lattice") \o Found(o.tabula.stream, "tabula_stream")
        ELSE << >>)
    \o (IF o.plumber.import = "ok" /\ o.plumber.open = "ok"
        THEN Found(o.plumber.page, "pdfplumber")
        ELSE << >>)

\* C15: whatever one strategy raises, a failure to open the PDF included,
\* extract_all_tables raises nothing and returns the candidates of the
\* strategies that succeeded (the empty list when none did).  Fails: the
\* pdfplumber.open of line 136 is outside the try of its function and
\* extract_all_tables catches RuntimeError only.
C15_StrategiesIndependent ==
    /\ raw_candidates.st = "ok"
    /\ ex_pc = ExtractStages => raw_candidates.tables = C15_Succeeded(strategies)

----------------------------------------------------------------------------
(* Claims on the line items (SpecItems)                                    *)

\* the first known name in the text of item j of the document
C19_NameIn(j) ==
    LET text == _extract_entity_text(entities[j].entity)
        hits == {n \in 1..Len(all_cardholders) : Contains(text, all_cardholders[n])}
    IN  IF hits = {} THEN "" ELSE all_cardholders[CHOOSE n \in hits : \A k \in hits : n <= k]

\* C19: in each document the cardholder of item i is the known name matched
\* in the latest item j <= i whose text contains a known name, and "Unknown"
\* when no item up to i contains one; the label of one document never reaches
\* the next.
C19_StickyCardholder ==
    /\ Len(transactions) = Len(entities)
    /\ \A i \in 1..Len(transactions) :
          LET named == {j \in 1..i : C19_NameIn(j) # ""}
          IN  /\ DictGet(transactions[i], "item_id") = Fin(i - 1, 0)
              /\ DictGet(transactions[i], "cardholder") =
                    IF named = {} THEN Str("Unknown")
                    ELSE Str(C19_NameIn(CHOOSE j \in named : \A k \in named : k <= j))

C19_Witness ==
    /\ doc_n = 2
    /\ prev_cardholder = "HIMANI SOOD"
    /\ Len(transactions) = 3
    /\ DictGet(transactions[1], "cardholder") = Str("Unknown")
    /\ DictGet(transactions[2], "cardholder") = Str("MOHIT AGGARWAL")
    /\ DictGet(transactions[3], "cardholder") = Str("MOHIT AGGARWAL")
    /\ C19_NameIn(3) = ""
    /\ Contains(_extract_entity_text(entities[2].entity), "HIMANI SOOD")

----------------------------------------------------------------------------
(* Claims on run_parsing (SpecParsing)                                     *)

\* C18: whenever run_parsing writes data.csv, its header is bank_name,
\* cardholder, transaction_date, description, amount, in that order, and
\* every row has those five fields, whatever the documents and the fields of
\* their line items were.
C18_FiveColumns ==
    /\ \A n \in 1..Len(all_cleaned_dfs) :
          all_cleaned_dfs[n].cols =
              <<"bank_name", "cardholder", "transaction_date", "description", "amount">>
    /\ (rp_pc = "done" /\ csv_saved) =>
          /\ data_csv.header =
                <<"bank_name", "cardholder", "transaction_date", "description", "amount">>
          /\ \A i \in 1..Len(data_csv.rows) : Len(data_csv.rows[i]) = 5
    /\ (rp_pc = "done" /\ all_cleaned_dfs # << >>) => data_csv.exists

C18_Witness ==
    /\ rp_pc = "done"
    /\ data_csv.exists
    /\ Len(all_cleaned_dfs) = 2
    /\ Len(data_csv.rows) = 3
    /\ data_csv.rows[1] = <<"Chase", "MOHIT AGGARWAL", "2025-06-25", "COFFEE", "$4.50">>
    /\ data_csv.rows[3] = <<"Amex", "HIMANI SOOD", "2024-07-02", "SLASHES", "$8.00">>

\* an amount text that stands for zero: signs and the currency mark apart, it
\* is made of zeros and at most one point
C20_IsZeroText(s) ==
    LET bare == ReplaceCh(ReplaceCh(ReplaceCh(ReplaceCh(Strip(s), "$", ""), "+", ""), "-", ""), ",", "")
    IN  /\ bare # "" /\ bare # "."
        /\ \A i \in 1..Len(bare) : Ch(bare, i) \in {"0", "."}
        /\ DotCount(bare) <= 1

C20_IsIsoDate(x) ==
    /\ x.t = "str"
    /\ Len(x.s) = 10
    /\ Ch(x.s, 5) = "-" /\ Ch(x.s, 8) = "-"
    /\ AllDigits(SubSeq(x.s, 1, 4)) /\ AllDigits(SubSeq(x.s, 6, 7)) /\ AllDigits(SubSeq(x.s, 9, 10))

\* C20: after _preprocess_transactions no row has a zero amount, in whatever
\* text ("$0.00", "0.00", "$0", "-$0.00"), and every row has a transaction
\* date of the form YYYY-MM-DD.  Fails: line 117 drops the two texts "$0.00"
\* and "+$0.00" only.
C20_NoZeroAmountNoBadDate ==
    \A n \in 1..Len(all_cleaned_dfs) :
        \A i \in 1..Len(all_cleaned_dfs[n].rows) :
            /\ ~IsNA(CellAt(all_cleaned_dfs[n], i, "amount"))
            /\ ~C20_IsZeroText(AsStr(CellAt(all_cleaned_dfs[n], i, "amount")))
            /\ C20_IsIsoDate(CellAt(all_cleaned_dfs[n], i, "transaction_date"))

\* the cell of a column of the frame of line 89, missing when the frame has no
\* such column
C21_Field(df, i, name) == IF HasCol(df, name) THEN CellAt(df, i, name) ELSE NaN

C21_Pick(df, i, w, d) ==
    IF ~IsNA(C21_Field(df, i, w)) THEN C21_Field(df, i, w) ELSE C21_Field(df, i, d)

\* C21: for every document the service returned with line items,
\* _preprocess_transactions does not raise, and its coalescing sets, row by
\* row, description, amount and transaction_date to the withdrawal field when
\* that is not null and else to the deposit field, a missing field counting as
\* null.  Fails: a document whose items carry only withdrawal fields, or only
\* deposit fields, makes lines 102-110 raise.
C21_CoalescesWithoutRaising ==
    (rp_pc # "idle" /\ result.st = "ok") =>
        LET df == FrameOf[result.document]
            out == CoalescedOf[result.document]
        IN  ~IsEmptyTable(df) =>
               /\ rp_pc # "raise"
               /\ out.st = "ok"
               /\ \A i \in 1..Len(df.rows) :
                     /\ CellAt(out, i, "description") =
                           C21_Pick(df, i, "table_item/transaction_withdrawal_description",
                                    "table_item/transaction_deposit_description")
                     /\ CellAt(out, i, "amount") =
                           C21_Pick(df, i, "table_item/transaction_withdrawal",
                                    "table_item/transaction_deposit")
                     /\ CellAt(out, i, "transaction_date") =
                           C21_Pick(df, i, "table_item/transaction_withdrawal_date",
                                    "table_item/transaction_deposit_date")

\* C30: whenever the categorization reads data.csv, the run_parsing call just
\* before it wrote that file.  Fails: a run_parsing that keeps no frame leaves
\* the data.csv of the run before in place, and the categorization reads it.
C30_CategorizesCurrentRun == rp_pc = "categorized" => csv_saved

\* C27: two runs of run_parsing over the same statement files, with the same
\* answers of the service, write the same rows in the same order, in whatever
\* order the folder was listed.  Fails: run_parsing walks os.listdir as it
\* comes (line 197), where process_folder sorts the names (line 354).
C27_SameOutputWhateverTheListing ==
    \A a \in 1..Len(runs) : \A b \in 1..Len(runs) : runs[a].output = runs[b].output

\* labels as pandas gives them to a frame built without a header: 0, 1, 2, ...
C22_Positional(df) == \A j \in 1..Len(df.cols) : AllDigits(df.cols[j])

\* C22: the first row is promoted to the header only over positional column
\* labels: a table that comes with header text keeps its header and all its
\* rows in the promotion step.  Fails: lines 262-268 look at the first row
\* only, never at the labels.
C22_PromotesOnlyOverPositional ==
    (clean_pc >= StPromote /\ ~C22_Positional(hist[StPromote])) =>
        /\ hist[StPromote + 1].cols = hist[StPromote].cols
        /\ hist[StPromote + 1].rows = hist[StPromote].rows

\* C23: the date statement keeps every row, gives a date that parses its
\* YYYY-MM-DD text, and leaves in every other date cell what was there before.
\* Fails: the cell of a date that does not parse becomes a missing value.
C23_UnparsedDateKept ==
    (clean_pc >= StDate /\ frame.st = "ok" /\ HasCol(hist[StDate], "date")) =>
        /\ Len(hist[StDate + 1].rows) = Len(hist[StDate].rows)
        /\ \A i \in 1..Len(hist[StDate].rows) :
              \/ C20_IsIsoDate(CellAt(hist[StDate + 1], i, "date"))
              \/ CellAt(hist[StDate + 1], i, "date") = CellAt(hist[StDate], i, "date")

C24_Repeated(df) ==
    \E j \in 1..Len(df.cols) : \E k \in 1..Len(df.cols) : j # k /\ df.cols[j] = df.cols[k]

\* C24: a table of which two labels are normalized to the same name is cleaned
\* without an exception, and the cleaned table has each name once, on the
\* column that came first.  Fails: with two date or two description columns
\* (two amount columns likewise) a statement before the removal of duplicate
\* columns raises, and the table is lost with all its rows.
C24_FirstOfRepeatedColumnKept ==
    (clean_pc >= StNormalize /\ C24_Repeated(hist[StNormalize + 1])) =>
        /\ frame.st = "ok"
        /\ clean_pc = CleanStages => ~C24_Repeated(frame)

\* the names of s that test true, in the order of s
C25_Present(df) == SelectSeq(Preferred, LAMBDA c : HasCol(df, c))
C25_Others(df) ==
    SelectSeq(df.cols, LAMBDA c : ~(\E p \in 1..Len(Preferred) : Preferred[p] = c))

\* C25: a table returned by clean_transaction_table has no name on two
\* columns, no two rows equal in every cell, and its columns are the present
\* ones of date, description, amount, cardholder, card_last4 in this order,
\* then the other columns in the order they had before.
C25_UniqueAndOrdered ==
    (clean_pc = CleanStages /\ frame.st = "ok") =>
        /\ ~C24_Repeated(frame)
        /\ \A i \in 1..Len(frame.rows) : \A k \in 1..Len(frame.rows) :
              i # k => frame.rows[i] # frame.rows[k]
        /\ frame.cols = C25_Present(frame) \o C25_Others(hist[StReorder])

C25_Witness ==
    /\ clean_pc = CleanStages
    /\ frame.st = "ok"
    /\ Len(frame.rows) >= 1
    /\ Len(hist[StDedup + 1].rows) < Len(hist[StDedup].rows)
    /\ hist[StReorder + 1].cols # hist[StReorder].cols
    /\ C25_Others(frame) # << >>

\* the rows of df that line 315 keeps
C29_Described(df) ==
    {i \in 1..Len(df.rows) :
        HasCol(df, "description") => Len(AsStr(CellAt(df, i, "description"))) > 0}

\* C29: a non-empty table returned by clean_transaction_table has an amount
\* column with a number in every row; a table with no amount, debit or credit
\* column gets the amount 0.0 in every row and loses no row for its amount:
\* it is returned non-empty when one of its rows has a description.
C29_AmountAlwaysNumeric ==
    (clean_pc = CleanStages /\ frame.st = "ok") =>
        /\ ~IsEmptyTable(frame) =>
              /\ HasCol(frame, "amount")
              /\ \A i \in 1..Len(frame.rows) : CellAt(frame, i, "amount").t \in {"fin", "inf"}
        /\ (/\ ~HasCol(hist[StAmount], "amount")
            /\ ~HasCol(hist[StAmount], "debit")
            /\ ~HasCol(hist[StAmount], "credit")) =>
              /\ \A i \in 1..Len(frame.rows) : CellAt(frame, i, "amount") = Zero
              /\ C29_Described(hist[StAmount]) # {} => ~IsEmptyTable(frame)

C29_Witness ==
    /\ clean_pc = CleanStages
    /\ frame.st = "ok"
    /\ ~HasCol(hist[StAmount], "amount")
    /\ ~HasCol(hist[StAmount], "debit")
    /\ ~HasCol(hist[StAmount], "credit")
    /\ Len(frame.rows) = 2
    /\ frame.cols = <<"date", "description", "amount">>
    /\ CellAt(frame, 1, "amount") = Zero /\ CellAt(frame, 2, "amount") = Zero

\* C26: inside the loop over the candidates no exception gets out: every
\* candidate gone through was either kept or passed over with its reason, the
\* kept ones are the non-empty frames that were cleaned and saved without an
\* exception, in the order they came, passed-over ones among them or not, and
\* when process_folder is done the combined frame holds the rows of every
\* kept table.
C26_TableFailureSkipsOnlyTheTable ==
    /\ seen = Len(all_cleaned) + Len(skipped)
    /\ \A t \in 1..Len(all_cleaned) : all_cleaned[t].st = "ok" /\ ~IsEmptyTable(all_cleaned[t])
    /\ \A n \in 1..Len(skipped) : skipped[n][3] # "kept"
    /\ pf_pc = "raise" => (raw_tables = << >> /\ tbl_i = 0)
    /\ (pf_pc \in {"empty", "done"} /\ skipped # << >>) =>
          (pf_pc = "done") = (all_cleaned # << >>)
    /\ pf_pc = "done" => Len(combined.rows) = C10_TotalRows(all_cleaned)

C26_Witness ==
    /\ pf_pc = "done"
    /\ Len(pdf_files) = 2
    /\ \E n \in 1..Len(skipped) :
          /\ skipped[n][1] = pdf_files[1]
          /\ skipped[n][3] = "cleaning raised"
    /\ Len(all_cleaned) = 1
    /\ sources[1][1] = pdf_files[2]
    /\ Len(ledger.rows) >= 1

RECURSIVE C28_Rows(_, _)
C28_Rows(groups, keys) ==
    IF keys = {} THEN 0
    ELSE LET k == CHOOSE x \in keys : TRUE
         IN  Len(groups[k]) + C28_Rows(groups, keys \ {k})

\* C28: the groups of the returned mapping hold, together, as many rows as
\* the sanitized ledger written to all_transactions.csv, each row of the
\* ledger being in the group of its cardholder.  Fails: groupby leaves out the
\* rows whose cardholder is missing.
C28_GroupsPartitionLedger ==
    pf_pc = "done" => C28_Rows(grouped, DOMAIN grouped) = Len(ledger.rows)

====
